---- MODULE Spec2Model ----
(***************************************************************************)
(* Model of the polytrader execution path: OrderExecutor (paper and live   *)
(* order handling, positions, trades, balance), the order objects shared   *)
(* with Strategy._orders, PolymarketClient's order calls as seen by the    *)
(* executor, and StrategyRunner's user-channel callback on_order_update.   *)
(*                                                                         *)
(* Numbers.  Python floats are modelled as exact rationals.  A price is an *)
(* integer count of "units", one unit being 1/(PriceScale*Milli) dollars,  *)
(* so that a grid price k/PriceScale is k*Milli units and a slipped price  *)
(* k/PriceScale * (1 +/- slippage) is k*(Milli +/- slippage) units with    *)
(* slippage given in thousandths.  Sizes are integers.  Balance and trade  *)
(* values are integers in units.  avg_entry_price and realized_pnl are     *)
(* quotients and are kept as reduced fractions <<n, d>> with d > 0.        *)
(***************************************************************************)
EXTENDS Integers, Sequences, FiniteSets, TLC

VARIABLES
    mode,          \* config.mode: "paper" or "live" (Config.is_paper)
    slippage,      \* OrderExecutor._slippage, in thousandths
    balance,       \* OrderExecutor._balance, in units
    orders,        \* every Order object created so far, indexed by its id
    execIds,       \* keys of OrderExecutor._orders
    stratIds,      \* keys of Strategy._orders (the same Order objects)
    positions,     \* OrderExecutor._positions: token -> Position
    trades,        \* OrderExecutor._trades
    stratTrades,   \* Strategy._trades (appended by on_order_update)
    lastOp,        \* the call made by the last step and what it returned
    effects,       \* the side effects of the last step's fill, in program order
    channel,       \* the channel whose receive loop is followed
    frame,         \* the frame last received on it
    pending,       \* the frame has not been handled yet
    emitted,       \* the callback invocations made while handling the frame
    recvAlive,     \* the receive loop has not been left by an exception
    nframes,       \* the number of frames received
    log,           \* the callbacks invoked since the loop began, each with its frame
    wsRunning,     \* WebSocketManager._running
    autoReconnect, \* WebSocketManager._auto_reconnect
    hasKey,        \* config.private_key is set: connect() opens the user channel
    marketSubs,    \* WebSocketManager._market_subscriptions
    marketWs,      \* the socket held in _market_ws: none, open, closed_ok, closed_err
    userWs,        \* the socket held in _user_ws
    runAt,         \* where run() stands: new, top, connecting, gather, sleep, exit
    via,           \* how run() came to the top of its loop: start, sleep, gather
    marketTask,    \* the _process_market_messages task of this round of run()
    userTask,      \* the _process_user_messages task
    marketPing,    \* the _send_pings task of the market socket
    userPing,      \* the _send_pings task of the user socket
    sent,          \* the assets_ids of the subscribe frames sent on the market socket
    reads,         \* the number of messages read from the market socket
    hasCreds,      \* config.api_key is set: _get_auth()["apiKey"] is truthy
    userSubs,      \* WebSocketManager._user_subscriptions
    userSent,      \* the markets of the USER frames sent on the user socket
    leaked,        \* the channels of which a replaced socket is still open
    missed,        \* PINGs of the market socket left unanswered in a row
    ping,          \* the last PING sent: its channel, and the loop test's operands
    hAt,           \* where StrategyRunner.run() stands: new, waiting, stopping, stopped
    launched,      \* the heartbeat and websocket tasks have been created
    started,       \* Strategy.on_start has been invoked
    hooks,         \* the Strategy hooks invoked by the last step, in program order
    markets,       \* Strategy._markets: market id -> Market (tokens and prices)
    onLoop,        \* the task the event loop is running: none, market, user, heartbeat
    inCallback,    \* the tasks that are inside a Strategy callback
    event,         \* the event the last dispatch was made for
    nEvents,       \* the number of events dispatched
    stratPositions, \* Strategy._positions: token -> Position
    call,          \* the Strategy.buy / sell call made by the last step, as given
    table,         \* the rows of the orders table of Storage's database
    listed,        \* what the last get_orders call returned
    storeOp        \* the last call on Storage and the order last saved

vars == <<mode, slippage, balance, orders, execIds, stratIds, positions,
          trades, stratTrades, lastOp, effects,
          channel, frame, pending, emitted, recvAlive, nframes, log,
          wsRunning, autoReconnect, hasKey, marketSubs, marketWs, userWs, runAt, via,
          marketTask, userTask, marketPing, userPing, sent, reads,
          hasCreds, userSubs, userSent, leaked, missed, ping,
          hAt, launched, started, hooks, markets, onLoop, inCallback, event, nEvents,
          stratPositions, call, table, listed, storeOp>>

engine == <<balance, orders, execIds, positions, trades>>

\* the executor, the strategy and the runner's callback
execVars == <<mode, slippage, balance, orders, execIds, stratIds, positions,
              trades, stratTrades, lastOp, effects>>

\* the decoder of WebSocketManager
decoderVars == <<channel, frame, pending, emitted, recvAlive, nframes, log>>

\* the connections of WebSocketManager and its run() loop
wsVars == <<wsRunning, autoReconnect, hasKey, marketSubs, marketWs, userWs, runAt, via,
            marketTask, userTask, marketPing, userPing, sent, reads,
            hasCreds, userSubs, userSent, leaked, missed, ping>>

\* StrategyRunner, the strategy's market cache and the tasks of the event loop
runnerVars == <<hAt, launched, started, hooks, markets, onLoop, inCallback, event,
                nEvents>>

\* the positions a Strategy keeps and the calls on its trading methods
strategyVars == <<stratPositions, call>>

\* Storage: the orders table
storageVars == <<table, listed, storeOp>>

----------------------------------------------------------------------------
(* Bounds of the model *)

MaxOrders == 2
MaxLiveOrders == 1
MaxFills == 1
MaxSize == 2
PriceScale == 3
StartingDollars == 1
MaxChanges == 2
MaxBatch == 2
MaxFrames == 2
MaxSent == 2
MaxReads == 1
MaxMissed == 3
MaxEvents == 3

(* Program constants *)

Milli == 1000
DefaultSlippage == 1

Tokens == {"T1", "T2"}
Sides == {"BUY", "SELL"}
OrderTypes == {"LIMIT", "MARKET"}
Statuses == {"PENDING", "OPEN", "FILLED", "PARTIALLY_FILLED", "CANCELLED", "REJECTED"}

\* prices k/PriceScale offered to create_order, 0 and 1 included
PriceInputs == {k * Milli : k \in 0 .. PriceScale}
SizeInputs == 0 .. MaxSize
\* sizes of the venue's fill events: a part of an order, and more than any order
FillSizes == {1, MaxSize + 1}
One == PriceScale * Milli
StartingBalance == StartingDollars * One

None == 0

----------------------------------------------------------------------------
(* Exact fractions *)

Abs(n) == IF n < 0 THEN -n ELSE n

RECURSIVE GCD(_, _)
GCD(a, b) == IF b = 0 THEN a ELSE GCD(b, a % b)

RNorm(n, d) == LET g == GCD(Abs(n), d) IN <<n \div g, d \div g>>
RInt(k) == <<k, 1>>
RAdd(x, y) == RNorm(x[1] * y[2] + y[1] * x[2], x[2] * y[2])
RSub(x, y) == RNorm(x[1] * y[2] - y[1] * x[2], x[2] * y[2])
RMulInt(x, k) == RNorm(x[1] * k, x[2])
RDivInt(x, k) == RNorm(x[1], x[2] * k)

RECURSIVE RSum(_, _)
RSum(f, S) == IF S = {} THEN RInt(0)
              ELSE LET t == CHOOSE u \in S : TRUE
                   IN RAdd(f[t], RSum(f, S \ {t}))

----------------------------------------------------------------------------
(* data/models.py *)

NewPosition == [size |-> 0, avg |-> RInt(0), realized |-> RInt(0)]

IsFlat(pos) == pos.size = 0

TradeValue(t) == t.price * t.size

----------------------------------------------------------------------------
(* core/executor.py: OrderExecutor *)

\* PreTradeCheck with the SELL check reduced to "a position exists".
PreTradeCheck_NoSellSize(bal, ps, token, side, price, size) ==
    IF size <= 0 THEN "size"
    ELSE IF price <= 0 \/ price >= One THEN "price"
    ELSE IF side = "BUY" /\ price * size > bal THEN "balance"
    ELSE IF side = "SELL" /\ token \notin DOMAIN ps THEN "position"
    ELSE "ok"

\* PreTradeCheck with the upper price bound taken inclusive (price > 1).
PreTradeCheck_PriceInclusive(bal, ps, token, side, price, size) ==
    IF size <= 0 THEN "size"
    ELSE IF price <= 0 \/ price > One THEN "price"
    ELSE IF side = "BUY" /\ price * size > bal THEN "balance"
    ELSE IF side = "SELL" /\ (token \notin DOMAIN ps \/ ps[token].size < size)
         THEN "position"
    ELSE "ok"

\* create_order, lines 86-107: the pre-trade checks, in the code's order.
\* The result is the reason of the rejection, or "ok".
PreTradeCheck(bal, ps, token, side, price, size) ==
    IF size <= 0 THEN "size"
    ELSE IF price <= 0 \/ price >= One THEN "price"
    ELSE IF side = "BUY" /\ price * size > bal THEN "balance"
    ELSE IF side = "SELL" /\ (token \notin DOMAIN ps \/ ps[token].size < size)
         THEN "position"
    ELSE "ok"

\* _execute_paper_order, lines 130-137: slippage on MARKET orders only.
FillPrice(side, price, otype, slip) ==
    IF otype = "MARKET"
    THEN (IF side = "BUY" THEN (price * (Milli + slip)) \div Milli
                          ELSE (price * (Milli - slip)) \div Milli)
    ELSE price

\* UpdateBalance with a SELL debited like a BUY.
UpdateBalance_AlwaysDebit(bal, side, price, size) == bal - price * size

\* _update_balance, lines 301-308.
UpdateBalance(bal, side, price, size) ==
    IF side = "BUY" THEN bal - price * size ELSE bal + price * size

\* _update_position, lines 255-267: the position after the trade.
TradedPosition(pos, side, price, size) ==
    IF side = "BUY"
    THEN LET total_cost == RAdd(RMulInt(pos.avg, pos.size), RInt(size * price))
             newSize == pos.size + size
         IN [pos EXCEPT !.size = newSize,
                        !.avg = IF newSize > 0 THEN RDivInt(total_cost, newSize)
                                ELSE pos.avg]
    ELSE [pos EXCEPT !.realized = IF pos.size > 0
                                  THEN RAdd(pos.realized,
                                            RMulInt(RSub(RInt(price), pos.avg), size))
                                  ELSE pos.realized,
                     !.size = pos.size - size]

\* KeepPosition without the removal of flat positions.
KeepPosition_Always(pos) == TRUE

\* _update_position, lines 271-273: flat positions leave the map.
KeepPosition(pos) == ~IsFlat(pos)

\* _update_position, lines 237-273.
UpdatePosition(ps, token, side, price, size) ==
    LET old == IF token \in DOMAIN ps THEN ps[token] ELSE NewPosition
        new == TradedPosition(old, side, price, size)
    IN IF KeepPosition(new)
       THEN [t \in DOMAIN ps \cup {token} |-> IF t = token THEN new ELSE ps[t]]
       ELSE [t \in DOMAIN ps \ {token} |-> ps[t]]

\* _execute_paper_order, lines 140-152: the Order of a paper fill.
PaperOrder(token, side, price, size, otype) ==
    [token |-> token, side |-> side, otype |-> otype, status |-> "FILLED",
     price |-> price, size |-> size, filled |-> size, paper |-> TRUE]

\* _execute_paper_order, lines 139-162: what a paper fill does, in the
\* order of the statements: the FILLED Order is stored, the Trade is recorded,
\* the balance is updated, the position is updated.  Strategy.on_fill is not
\* called and nothing is handed to storage.
PaperFillEffects == <<"order", "trade", "balance", "position">>

\* NewTrade recording the order's limit price in place of the fill price.
NewTrade_OrderPrice(oid, o, price, size) ==
    [order |-> oid, token |-> o.token, side |-> o.side, price |-> o.price,
     size |-> size, paper |-> o.paper]

\* _create_trade, lines 277-291.
NewTrade(oid, o, price, size) ==
    [order |-> oid, token |-> o.token, side |-> o.side, price |-> price,
     size |-> size, paper |-> o.paper]

\* equity, lines 317-324 (position value at average entry price).
CostBasis == RSum([t \in DOMAIN positions |->
                     RMulInt(positions[t].avg, positions[t].size)],
                  DOMAIN positions)

\* realized_pnl, lines 326-329.
RealizedPnl == RSum([t \in DOMAIN positions |-> positions[t].realized],
                    DOMAIN positions)

----------------------------------------------------------------------------
(* core/client.py: PolymarketClient, as the executor calls it *)

\* create_order, lines 295-304 (live) and _create_paper_order, lines 324-334.
ClientOrder(token, side, price, size, otype, paper) ==
    [token |-> token, side |-> side, otype |-> otype,
     status |-> IF paper THEN "PENDING" ELSE "OPEN",
     price |-> price, size |-> size, filled |-> 0, paper |-> paper]

\* What the venue does with a cancel request: it cancels, it declines, the
\* call raises, or no CLOB client is configured.
VenueCancel == {"canceled", "not_canceled", "error", "no_client"}

\* ClientCancel with a raising venue call taken for a success.
ClientCancel_ErrorIsSuccess(paper, venue) ==
    IF paper THEN TRUE ELSE venue \in {"canceled", "error"}

\* cancel_order, lines 336-351: the boolean handed back to the executor.
ClientCancel(paper, venue) ==
    IF paper THEN TRUE ELSE venue = "canceled"

----------------------------------------------------------------------------
(* core/websocket.py: decoding of the frames of the market and user channels *)

(* A JSON field of an object: absent, a number, a string spelling a number   *)
(* ("0.65"), another string (num 0 is the empty string, other values name    *)
(* distinct strings), or null.  Numbers are counted in hundredths.           *)
JAbsent == [kind |-> "absent", num |-> 0]
JNull == [kind |-> "null", num |-> 0]
JNum(n) == [kind |-> "num", num |-> n]
JNumStr(n) == [kind |-> "numstr", num |-> n]
JStr(k) == [kind |-> "str", num |-> k]

\* an element of a price_changes array that is an object
Change(asset_id, price, best_bid, best_ask) ==
    [isDict |-> TRUE, asset_id |-> asset_id, price |-> price,
     best_bid |-> best_bid, best_ask |-> best_ask]

\* an element of a price_changes array that is no object (pc.get raises)
NonDictChange ==
    [isDict |-> FALSE, asset_id |-> JAbsent, price |-> JAbsent,
     best_bid |-> JAbsent, best_ask |-> JAbsent]

\* the price_changes field of an object: absent, a list, or no list
NoChanges == [kind |-> "absent", items |-> <<>>]
ListChanges(pcs) == [kind |-> "list", items |-> pcs]
NotListChanges == [kind |-> "notlist", items |-> <<>>]

Message(event_type, market, asset_id, price, bid, ask, price_changes) ==
    [event_type |-> event_type, market |-> market, asset_id |-> asset_id,
     price |-> price, bid |-> bid, ask |-> ask, price_changes |-> price_changes]

\* an object with the event_type only
Bare(event_type) ==
    Message(event_type, JAbsent, JAbsent, JAbsent, JAbsent, JAbsent, NoChanges)

DictItem(msg) == [isDict |-> TRUE, msg |-> msg]
NonDictItem == [isDict |-> FALSE, msg |-> Bare("")]

InvalidFrame == [kind |-> "invalid", items |-> <<>>]
ScalarFrame == [kind |-> "scalar", items |-> <<>>]
DictFrame(msg) == [kind |-> "dict", items |-> <<DictItem(msg)>>]
ListFrame(items) == [kind |-> "list", items |-> items]

SeqsUpTo(S, n) == UNION {[1 .. k -> S] : k \in 0 .. n}

\* the elements of price_changes arrays
ChangeEntries ==
    {Change(a, p, b, k) :
        a \in {JAbsent, JStr(1), JStr(2)},
        p \in {JAbsent, JNumStr(65), JStr(3)},
        b \in {JAbsent, JNumStr(64)},
        k \in {JAbsent, JNull}}
    \cup {NonDictChange}

BatchedMessages ==
    {Message("price_change", m, JAbsent, JAbsent, JAbsent, JAbsent, ListChanges(pcs)) :
        m \in {JAbsent, JStr(9)}, pcs \in SeqsUpTo(ChangeEntries, MaxChanges)}

LegacyMessages ==
    {Message("price_change", m, a, p, b, k, NoChanges) :
        m \in {JAbsent, JStr(9)},
        a \in {JAbsent, JStr(1)},
        p \in {JAbsent, JNum(1), JNumStr(65), JStr(3), JNull},
        b \in {JAbsent, JNumStr(64), JNum(0)},
        k \in {JAbsent, JNumStr(66)}}

OtherMessages ==
    {Bare("book"), Bare("trade"), Bare("last_trade_price"), Bare(""),
     Message("price_change", JStr(9), JAbsent, JAbsent, JAbsent, JAbsent, NotListChanges)}

\* the elements of list frames of the market channel
BatchItems ==
    {NonDictItem,
     DictItem(Bare("book")),
     DictItem(Bare("last_trade_price")),
     DictItem(Message("price_change", JStr(9), JStr(1), JNumStr(65), JAbsent, JAbsent,
                      NoChanges)),
     DictItem(Message("price_change", JStr(9), JStr(1), JStr(3), JAbsent, JAbsent,
                      NoChanges)),
     DictItem(Message("price_change", JStr(9), JAbsent, JAbsent, JAbsent, JAbsent,
                      ListChanges(<<Change(JStr(2), JNumStr(65), JAbsent, JAbsent)>>)))}

MarketFrames ==
    {InvalidFrame, ScalarFrame}
    \cup {DictFrame(msg) : msg \in BatchedMessages \cup LegacyMessages \cup OtherMessages}
    \cup {ListFrame(items) : items \in SeqsUpTo(BatchItems, MaxBatch)}

UserItems ==
    {NonDictItem} \cup
    {DictItem(Bare(t)) : t \in {"order", "order_fill", "order_cancel", "trade"}}

UserFrames ==
    {InvalidFrame, ScalarFrame}
    \cup {DictFrame(Bare(t)) : t \in {"order", "order_fill", "order_cancel", "trade"}}
    \cup {ListFrame(items) : items \in SeqsUpTo(UserItems, MaxBatch)}

\* the frames that follow the first one
LaterFrames == {InvalidFrame, DictFrame(Bare("book"))}

\* dict.get(key, default)
Get(v, default) == IF v.kind = "absent" THEN default ELSE v

\* float(x): the value of a number or of a numeric string; ValueError or
\* TypeError (exc) for any other string and for null.
Float(v) ==
    IF v.kind \in {"num", "numstr"} THEN [exc |-> FALSE, val |-> v.num]
    ELSE [exc |-> TRUE, val |-> 0]

\* Optional[float]
NoFloat == [some |-> FALSE, val |-> 0]
SomeFloat(x) == [some |-> TRUE, val |-> x]

\* float(d[key]) if key in d else None
OptFloat(v) ==
    IF v.kind = "absent" THEN [exc |-> FALSE, opt |-> NoFloat]
    ELSE [exc |-> Float(v).exc, opt |-> SomeFloat(Float(v).val)]

\* data/models.py, lines 229-242: PriceUpdate (the timestamp is left out)
PriceUpdate(market_id, token_id, price, best_bid, best_ask) ==
    [market_id |-> market_id, token_id |-> token_id, price |-> price,
     best_bid |-> best_bid, best_ask |-> best_ask]

BlankUpdate == PriceUpdate(JStr(0), JStr(0), 0, NoFloat, NoFloat)

\* the value a parser returns: a PriceUpdate (some), None, or an exception
Parsed(u) == [exc |-> FALSE, some |-> TRUE, update |-> u]
ParsedNone == [exc |-> FALSE, some |-> FALSE, update |-> BlankUpdate]
ParseRaised == [exc |-> TRUE, some |-> FALSE, update |-> BlankUpdate]

\* ParseSinglePriceChange taking the token id for the market id.
ParseSinglePriceChange_MarketFromAsset(pc, market_id) ==
    IF ~pc.isDict THEN ParsedNone
    ELSE LET price == Float(Get(pc.price, JNum(0)))
             bid == OptFloat(pc.best_bid)
             ask == OptFloat(pc.best_ask)
         IN IF price.exc \/ bid.exc \/ ask.exc THEN ParsedNone
            ELSE Parsed(PriceUpdate(Get(pc.asset_id, JStr(0)), Get(pc.asset_id, JStr(0)),
                                    price.val, bid.opt, ask.opt))

\* ParseSinglePriceChange without its try/except: the exception goes up.
ParseSinglePriceChange_NoTry(pc, market_id) ==
    IF ~pc.isDict THEN ParseRaised
    ELSE LET price == Float(Get(pc.price, JNum(0)))
             bid == OptFloat(pc.best_bid)
             ask == OptFloat(pc.best_ask)
         IN IF price.exc \/ bid.exc \/ ask.exc THEN ParseRaised
            ELSE Parsed(PriceUpdate(market_id, Get(pc.asset_id, JStr(0)),
                                    price.val, bid.opt, ask.opt))

\* _parse_single_price_change, lines 429-442.
ParseSinglePriceChange(pc, market_id) ==
    IF ~pc.isDict THEN ParsedNone
    ELSE LET price == Float(Get(pc.price, JNum(0)))
             bid == OptFloat(pc.best_bid)
             ask == OptFloat(pc.best_ask)
         IN IF price.exc \/ bid.exc \/ ask.exc THEN ParsedNone
            ELSE Parsed(PriceUpdate(market_id, Get(pc.asset_id, JStr(0)),
                                    price.val, bid.opt, ask.opt))

\* ParseLegacyPriceUpdate with a missing bid or ask read as 0.
ParseLegacyPriceUpdate_MissingIsZero(data) ==
    LET price == Float(Get(data.price, JNum(0)))
        bid == Float(Get(data.bid, JNum(0)))
        ask == Float(Get(data.ask, JNum(0)))
    IN IF price.exc \/ bid.exc \/ ask.exc THEN ParsedNone
       ELSE Parsed(PriceUpdate(Get(data.market, JStr(0)), Get(data.asset_id, JStr(0)),
                               price.val, SomeFloat(bid.val), SomeFloat(ask.val)))

\* _parse_legacy_price_update, lines 444-457.
ParseLegacyPriceUpdate(data) ==
    LET price == Float(Get(data.price, JNum(0)))
        bid == OptFloat(data.bid)
        ask == OptFloat(data.ask)
    IN IF price.exc \/ bid.exc \/ ask.exc THEN ParsedNone
       ELSE Parsed(PriceUpdate(Get(data.market, JStr(0)), Get(data.asset_id, JStr(0)),
                               price.val, bid.opt, ask.opt))

\* _parse_price_updates, lines 414-417: the loop over the array.  An
\* exception ends the loop; the updates appended before it stay in the list.
RECURSIVE ParseChanges(_, _)
ParseChanges(pcs, market_id) ==
    IF pcs = <<>> THEN [exc |-> FALSE, out |-> <<>>]
    ELSE LET r == ParseSinglePriceChange(Head(pcs), market_id)
         IN IF r.exc THEN [exc |-> TRUE, out |-> <<>>]
            ELSE LET rest == ParseChanges(Tail(pcs), market_id)
                 IN [exc |-> rest.exc,
                     out |-> (IF r.some THEN <<r.update>> ELSE <<>>) \o rest.out]

\* _parse_price_updates, lines 401-427.  price_changes is absent, a list, or
\* a value that is no list ("notlist": iterating it raises, or yields
\* elements without a get method); the except clause returns the updates
\* collected so far.
ParsePriceUpdates(data) ==
    IF data.price_changes.kind = "list"
    THEN ParseChanges(data.price_changes.items, Get(data.market, JStr(0))).out
    ELSE IF data.price_changes.kind = "notlist" THEN <<>>
    ELSE LET r == ParseLegacyPriceUpdate(data)
         IN IF r.some THEN <<r.update>> ELSE <<>>

\* a callback invocation: cb names the callback list, etype is the object's
\* event_type, update the PriceUpdate handed to a price callback
Emit(cb, etype, update) == [cb |-> cb, etype |-> etype, update |-> update]

RECURSIVE EmitPrices(_)
EmitPrices(updates) ==
    IF updates = <<>> THEN <<>>
    ELSE <<Emit("price", "price_change", Head(updates))>> \o EmitPrices(Tail(updates))

\* _handle_single_market_message, lines 362-388 (an exception of a callback
\* is caught around each call).
HandleSingleMarketMessage(data) ==
    IF data.event_type = "price_change" THEN EmitPrices(ParsePriceUpdates(data))
    ELSE IF data.event_type \in {"book", "trade"}
         THEN <<Emit(data.event_type, data.event_type, BlankUpdate)>>
    ELSE <<>>

\* _handle_market_message, lines 352-356: the loop over a list frame.
RECURSIVE HandleMarketItems(_)
HandleMarketItems(items) ==
    IF items = <<>> THEN <<>>
    ELSE (IF Head(items).isDict THEN HandleSingleMarketMessage(Head(items).msg)
          ELSE <<>>) \o HandleMarketItems(Tail(items))

\* _handle_market_message, lines 349-360.  A frame is text that is no JSON
\* ("invalid"), a JSON value that is neither object nor list ("scalar"), an
\* object ("dict", its one item) or a list of items.
HandleMarketMessage(f) ==
    IF f.kind = "list" THEN HandleMarketItems(f.items)
    ELSE IF f.kind = "dict" THEN HandleSingleMarketMessage(f.items[1].msg)
    ELSE <<>>

\* _process_market_messages, lines 326-333: the body of the receive loop for
\* one frame.  exc tells whether an exception leaves the loop body.
ProcessMarketMessage(f) ==
    IF f.kind = "invalid" THEN [exc |-> FALSE, out |-> <<>>]
    ELSE [exc |-> FALSE, out |-> HandleMarketMessage(f)]

\* _handle_user_message, lines 390-399: data.get raises AttributeError on
\* anything that is no object.
HandleUserMessage(f) ==
    IF f.kind # "dict" THEN [exc |-> TRUE, out |-> <<>>]
    ELSE LET data == f.items[1].msg
         IN [exc |-> FALSE,
             out |-> IF data.event_type \in {"order", "order_fill", "order_cancel"}
                     THEN <<Emit("order", data.event_type, BlankUpdate)>>
                     ELSE <<>>]

\* _process_user_messages, lines 340-347: the body of the receive loop for
\* one frame; both except clauses log and go on.
ProcessUserMessage(f) ==
    IF f.kind = "invalid" THEN [exc |-> FALSE, out |-> <<>>]
    ELSE [exc |-> FALSE, out |-> HandleUserMessage(f).out]

----------------------------------------------------------------------------
(* The state machine *)

\* op: the method called; why: the pre-trade check that failed, "venue" or
\* "ok"; ret: the id of the Order returned, or None; ok: the boolean returned.
Call(op, why, ret, ok) == [op |-> op, why |-> why, ret |-> ret, ok |-> ok]

\* the number of Order objects the model lets a run create
OrderCap == IF mode = "paper" THEN MaxOrders ELSE MaxLiveOrders

Configs == {<<"paper", 0>>, <<"paper", DefaultSlippage>>, <<"live", DefaultSlippage>>}

\* OrderExecutor.__init__, lines 46-59, and Strategy.__init__
EngineInit ==
    /\ \E c \in Configs : mode = c[1] /\ slippage = c[2]
    /\ balance = StartingBalance
    /\ orders = <<>>
    /\ execIds = {}
    /\ stratIds = {}
    /\ positions = [t \in {} |-> NewPosition]
    /\ trades = <<>>
    /\ stratTrades = <<>>
    /\ lastOp = Call("init", "", None, FALSE)
    /\ effects = <<>>

\* no frame has been received
DecoderIdle ==
    /\ channel = "none"
    /\ frame = InvalidFrame
    /\ pending = FALSE
    /\ emitted = <<>>
    /\ recvAlive = TRUE
    /\ nframes = 0
    /\ log = <<>>

\* no PING has been sent yet
NoPing == [ch |-> "none", open |-> TRUE, running |-> TRUE]

\* WebSocketManager.__init__, lines 44-68: nothing connected, run() not
\* started; auto, key and creds are websocket.auto_reconnect, whether a
\* private key is configured and whether an API key is.
WsIdle(auto, key, creds) ==
    /\ wsRunning = FALSE
    /\ autoReconnect = auto
    /\ hasKey = key
    /\ marketSubs = {}
    /\ marketWs = "none"
    /\ userWs = "none"
    /\ runAt = "new"
    /\ via = "start"
    /\ marketTask = "none"
    /\ userTask = "none"
    /\ marketPing = "none"
    /\ userPing = "none"
    /\ sent = <<>>
    /\ reads = 0
    /\ hasCreds = creds
    /\ userSubs = {}
    /\ userSent = <<>>
    /\ leaked = {}
    /\ missed = 0
    /\ ping = NoPing

\* no event has been dispatched yet
NoEvent == [kind |-> "none", token |-> "", price |-> 0]

\* no call on Strategy.buy or Strategy.sell has been made
NoCall == [op |-> "none", market |-> "", size |-> <<>>, price |-> <<>>, outcome |-> ""]

\* Strategy.__init__, base.py lines 61: no position.
StrategyIdle ==
    /\ stratPositions = <<>>
    /\ call = NoCall

\* no order has been saved
NoStoreOp == [op |-> "none", order |-> <<>>, limit |-> 0]

\* Storage.__init__ and _init_db, storage.py lines 38-129, on a new database
\* file: the orders table is empty.
StorageIdle ==
    /\ table = {}
    /\ listed = <<>>
    /\ storeOp = NoStoreOp

\* StrategyRunner.__init__, runner.py lines 29-46, and Strategy.__init__,
\* base.py line 60: run() not called, no market loaded.
RunnerIdle ==
    /\ hAt = "new"
    /\ launched = FALSE
    /\ started = FALSE
    /\ hooks = <<>>
    /\ markets = <<>>
    /\ onLoop = "none"
    /\ inCallback = {}
    /\ event = NoEvent
    /\ nEvents = 0

Init == EngineInit /\ DecoderIdle /\ WsIdle(TRUE, FALSE, FALSE) /\ RunnerIdle /\ StrategyIdle /\ StorageIdle

\* OrderExecutor.create_order, lines 86-116: which check refuses the intent
\* ("size", "price", "balance", "position"), "venue" when the live venue
\* returns no order (client.create_order, lines 284-311), else "ok".
\* venueAccepts is the venue's answer to a live order.
CreateOutcome(token, side, price, size, venueAccepts) ==
    LET why == PreTradeCheck(balance, positions, token, side, price, size)
    IN IF why # "ok" THEN why
       ELSE IF mode = "paper" \/ venueAccepts THEN "ok"
       ELSE "venue"

\* OrderExecutor.create_order, lines 63-116, with _execute_paper_order
\* (118-168) and _execute_live_order (170-193).  track is TRUE when the call
\* comes through Strategy._create_order, which stores the returned Order in
\* Strategy._orders.
CreateEffects(token, side, price, size, otype, venueAccepts, track) ==
    LET why == CreateOutcome(token, side, price, size, venueAccepts)
        oid == Len(orders) + 1
    IN
    /\ Len(orders) < OrderCap
    /\ IF why # "ok"
       THEN /\ lastOp' = Call("create_order", why, None, FALSE)
            /\ effects' = <<>>
            /\ UNCHANGED <<engine, stratIds>>
       ELSE IF mode = "paper"
       THEN LET fill_price == FillPrice(side, price, otype, slippage)
                order == PaperOrder(token, side, price, size, otype)
            IN /\ orders' = Append(orders, order)
               /\ execIds' = execIds \cup {oid}
               /\ trades' = Append(trades, NewTrade(oid, order, fill_price, size))
               /\ balance' = UpdateBalance(balance, side, fill_price, size)
               /\ positions' = UpdatePosition(positions, token, side, fill_price, size)
               /\ stratIds' = IF track THEN stratIds \cup {oid} ELSE stratIds
               /\ lastOp' = Call("create_order", "ok", oid, TRUE)
               /\ effects' = PaperFillEffects
       ELSE /\ orders' = Append(orders, ClientOrder(token, side, price, size, otype, FALSE))
            /\ execIds' = execIds \cup {oid}
            /\ stratIds' = IF track THEN stratIds \cup {oid} ELSE stratIds
            /\ lastOp' = Call("create_order", "ok", oid, TRUE)
            /\ effects' = <<>>
            /\ UNCHANGED <<balance, positions, trades>>
    /\ UNCHANGED <<mode, slippage, stratTrades>>

\* create_order called with nothing else going on
CreateOrder(token, side, price, size, otype, venueAccepts, track) ==
    /\ CreateEffects(token, side, price, size, otype, venueAccepts, track)
    /\ UNCHANGED <<decoderVars, wsVars, runnerVars, strategyVars, storageVars>>

\* The venue's answers to a live order; paper mode never asks the venue.
VenueAnswers == IF mode = "paper" THEN {TRUE} ELSE BOOLEAN

\* OrderExecutor.create_order called directly, with the order type that
\* Strategy._create_order never passes.
ExecCreateOrder ==
    \E token \in Tokens, side \in Sides, price \in PriceInputs, size \in SizeInputs,
       venueAccepts \in VenueAnswers :
        CreateOrder(token, side, price, size, "MARKET", venueAccepts, FALSE)

\* Strategy._create_order, lines 303-322 (the executor is set by the runner;
\* order_type is left at its default).
StrategyCreateOrder ==
    \E token \in Tokens, side \in Sides, price \in PriceInputs, size \in SizeInputs,
       venueAccepts \in VenueAnswers :
        CreateOrder(token, side, price, size, "LIMIT", venueAccepts, TRUE)

\* PolymarketClient.create_order, lines 261-311, called on the client itself:
\* the Order it returns is held by the caller only.
ClientCreate(token, side, price, size, venueAccepts) ==
    LET oid == Len(orders) + 1
        made == mode = "paper" \/ venueAccepts
    IN /\ Len(orders) < OrderCap
       /\ orders' = IF made
                    THEN Append(orders, ClientOrder(token, side, price, size,
                                                    "LIMIT", mode = "paper"))
                    ELSE orders
       /\ lastOp' = Call("client_create_order", IF made THEN "ok" ELSE "venue",
                         IF made THEN oid ELSE None, made)
       /\ effects' = <<>>
       /\ UNCHANGED <<mode, slippage, balance, execIds, stratIds, positions,
                      trades, stratTrades>>
       /\ UNCHANGED <<decoderVars, wsVars, runnerVars, strategyVars, storageVars>>

ClientCreateOrder ==
    \E venueAccepts \in VenueAnswers : ClientCreate("T1", "BUY", Milli, 1, venueAccepts)

\* CancelResult without the guard on the order's status.
CancelResult_NoGuard(o, paper, venue) ==
    IF paper THEN [order |-> [o EXCEPT !.status = "CANCELLED"], ok |-> TRUE]
    ELSE LET success == ClientCancel(paper, venue)
         IN [order |-> IF success THEN [o EXCEPT !.status = "CANCELLED"] ELSE o,
             ok |-> success]

\* OrderExecutor.cancel_order, lines 195-217: the order after the call and
\* the boolean returned.
CancelResult(o, paper, venue) ==
    IF o.status \notin {"OPEN", "PENDING"} THEN [order |-> o, ok |-> FALSE]
    ELSE IF paper THEN [order |-> [o EXCEPT !.status = "CANCELLED"], ok |-> TRUE]
    ELSE LET success == ClientCancel(paper, venue)
         IN [order |-> IF success THEN [o EXCEPT !.status = "CANCELLED"] ELSE o,
             ok |-> success]

\* OrderExecutor.cancel_order (also reached through Strategy.cancel_order,
\* base.py lines 267-283) on an Order object the caller holds.
Cancel(oid, venue) ==
    LET r == CancelResult(orders[oid], mode = "paper", venue)
    IN /\ orders' = [orders EXCEPT ![oid] = r.order]
       /\ lastOp' = Call("cancel_order", "", None, r.ok)
       /\ effects' = <<>>
       /\ UNCHANGED <<mode, slippage, balance, execIds, stratIds, positions,
                      trades, stratTrades>>
       /\ UNCHANGED <<decoderVars, wsVars, runnerVars, strategyVars, storageVars>>

\* The venue's answers to a cancel: the venue is asked only in live mode and
\* only for an order that is OPEN or PENDING.
CancelAnswers(oid) ==
    IF mode = "paper" \/ orders[oid].status \notin {"OPEN", "PENDING"}
    THEN {"canceled"}
    ELSE VenueCancel

CancelOrder ==
    \E oid \in 1 .. Len(orders) : \E venue \in CancelAnswers(oid) : Cancel(oid, venue)

----------------------------------------------------------------------------
(* strategy/runner.py: StrategyRunner._setup_callbacks.on_order_update *)

EventTypes == {"order_fill", "order_cancel"}

\* the price of a fill event: absent (None) or a grid price
FillPrices == {None, 2 * Milli}

\* lines 218-220: the Order after a fill of the given size.
FilledOrder(o, size) ==
    LET filled == o.filled + size
    IN [o EXCEPT !.filled = filled,
                 !.status = IF filled >= o.size THEN "FILLED" ELSE o.status]

\* lines 208-216: the Trade built from the event.
FillTrade(oid, o, price, size) ==
    [order |-> oid, token |-> o.token, side |-> o.side,
     price |-> IF price = None THEN o.price ELSE price,
     size |-> size, paper |-> FALSE]

\* The ids the venue reports on: orders it holds (live orders), and ids that
\* are no order of this process.
VenueIds == {i \in 1 .. MaxOrders : i > Len(orders) \/ ~orders[i].paper}

\* lines 208-225: what a live fill does, in the order of the statements:
\* the Order is updated, the Trade is appended to Strategy._trades,
\* Strategy.on_fill is called.  The executor's balance, positions and trades
\* are not touched and nothing is handed to storage.
LiveFillEffects == <<"order", "trade", "on_fill">>

\* on_order_update, lines 196-227, as called by
\* WebSocketManager._handle_user_message (websocket.py lines 390-399) for an
\* event of the user channel.  Strategy.on_fill is the base no-op.  why tells
\* a first delivery ("") from a redelivery of the venue ("redelivery"); the
\* handler reads neither a fill sequence nor a trade id from the event.
OrderUpdateEffects(etype, oid, price, size, why) ==
    LET applies == oid \in stratIds /\ etype = "order_fill"
    IN /\ IF applies
          THEN /\ orders' = [orders EXCEPT ![oid] = FilledOrder(orders[oid], size)]
               /\ stratTrades' = Append(stratTrades,
                                        FillTrade(oid, orders[oid], price, size))
               /\ effects' = LiveFillEffects
          ELSE /\ effects' = <<>>
               /\ UNCHANGED <<orders, stratTrades>>
       /\ lastOp' = Call("on_order_update", why, None, applies)
       /\ UNCHANGED <<mode, slippage, balance, execIds, stratIds, positions, trades>>

\* on_order_update called with nothing else going on
ApplyOrderUpdate(etype, oid, price, size, why) ==
    /\ OrderUpdateEffects(etype, oid, price, size, why)
    /\ UNCHANGED <<decoderVars, wsVars, runnerVars, strategyVars, storageVars>>

\* a first delivery of an event
OrderUpdate(etype, oid, price, size) ==
    /\ Len(stratTrades) < MaxFills
    /\ ApplyOrderUpdate(etype, oid, price, size, "")

OnOrderUpdate ==
    \E etype \in EventTypes, oid \in VenueIds, price \in FillPrices, size \in FillSizes :
        OrderUpdate(etype, oid, price, size)

\* The venue delivers at least once: after a reconnect it sends the
\* order_fill event of an earlier fill again, with the same order id, fill
\* sequence, price and size.  One redelivery is followed: that of the first
\* fill, before any other fill is applied.
Redelivery(i) ==
    /\ Len(stratTrades) = 1
    /\ ApplyOrderUpdate("order_fill", stratTrades[i].order, stratTrades[i].price,
                        stratTrades[i].size, "redelivery")

RedeliverOrderUpdate == \E i \in 1 .. Len(stratTrades) : Redelivery(i)

Next ==
    \/ ExecCreateOrder
    \/ StrategyCreateOrder
    \/ ClientCreateOrder
    \/ CancelOrder
    \/ OnOrderUpdate
    \/ RedeliverOrderUpdate

Spec == Init /\ [][Next]_vars

----------------------------------------------------------------------------
(* The receive loops of WebSocketManager, one frame at a time *)

\* `async for message in ws`: the next frame arrives.  The first frame is any
\* frame of the channel, the later ones show that the loop is still reading.
Receive(ch, f) ==
    /\ recvAlive
    /\ ~pending
    /\ nframes < MaxFrames
    /\ channel' = ch
    /\ frame' = f
    /\ pending' = TRUE
    /\ emitted' = <<>>
    /\ nframes' = nframes + 1
    /\ UNCHANGED <<recvAlive, log>>
    /\ UNCHANGED <<execVars, wsVars, runnerVars, strategyVars, storageVars>>

ReceiveMarket ==
    /\ channel \in {"none", "market"}
    /\ \E f \in IF nframes = 0 THEN MarketFrames ELSE LaterFrames : Receive("market", f)

ReceiveUser ==
    /\ channel \in {"none", "user"}
    /\ \E f \in IF nframes = 0 THEN UserFrames
                ELSE {InvalidFrame, DictFrame(Bare("order"))} : Receive("user", f)

\* InvokeAll with the callbacks of a frame run ahead of those still recorded.
InvokeAll_Ahead(done, out, n) == [i \in 1 .. Len(out) |-> [n |-> n, call |-> out[i]]] \o done

\* websocket.py lines 368-374 (372: callback(update)): each callback is called
\* where the handler stands and has returned when the handler goes on, so
\* the calls of frame n follow, in their order, the calls made before.
InvokeAll(done, out, n) == done \o [i \in 1 .. Len(out) |-> [n |-> n, call |-> out[i]]]

\* the loop body of _process_market_messages / _process_user_messages
Handle(r) ==
    /\ emitted' = r.out
    /\ log' = InvokeAll(log, r.out, nframes)
    /\ recvAlive' = ~r.exc
    /\ pending' = FALSE
    /\ UNCHANGED <<channel, frame, nframes>>
    /\ UNCHANGED <<execVars, wsVars, runnerVars, strategyVars, storageVars>>

MarketMessage ==
    /\ pending /\ channel = "market"
    /\ Handle(ProcessMarketMessage(frame))

UserMessage ==
    /\ pending /\ channel = "user"
    /\ Handle(ProcessUserMessage(frame))

DecoderNext ==
    \/ ReceiveMarket
    \/ ReceiveUser
    \/ MarketMessage
    \/ UserMessage

\* the decoder alone, the engine left as constructed
DecoderInit == Init /\ mode = "live"

DecoderSpec == DecoderInit /\ [][DecoderNext]_vars

----------------------------------------------------------------------------
(* core/websocket.py: subscriptions, connections and the run() loop.        *)
(* A socket is "open", or closed with a normal close code ("closed_ok": the *)
(* `async for` over it ends) or otherwise ("closed_err": the `async for`    *)
(* raises ConnectionClosed).  Tasks of an earlier round of run() that are   *)
(* still attached to an old socket are not followed.                         *)

Closed == {"closed_ok", "closed_err"}

Channels == {"market", "user"}

\* the condition ids offered to subscribe_user
Conditions == {"M1"}

\* ConnectFrames without the subscribe frame.
ConnectFrames_None(subs) == <<>>

\* _connect_market, lines 150-151, with _send_market_subscription, lines
\* 174-192: the frames sent on the new socket, by their assets_ids.
ConnectFrames(subs) == IF subs # {} THEN <<subs>> ELSE <<>>

\* _send_user_subscription, lines 194-212, on a socket that exists: the
\* frames sent, by their markets; creds is auth.get("apiKey").
UserSubscription(subs, creds) == IF creds THEN <<subs>> ELSE <<>>

\* _connect_user, lines 168-169: the frames sent on the new user socket.
UserConnectFrames(subs, creds) ==
    IF subs # {} THEN UserSubscription(subs, creds) ELSE <<>>

\* PingLoopTest without the test of the socket.
PingLoopTest_NoOpen(running, open) == running

\* _send_pings, line 303: the test of the ping loop on _running and ws.open.
PingLoopTest(running, open) == running /\ open

\* run(), lines 252-254.
Run ==
    /\ runAt = "new"
    /\ wsRunning' = TRUE
    /\ runAt' = "top"
    /\ via' = "start"
    /\ UNCHANGED <<autoReconnect, hasKey, hasCreds, marketSubs, userSubs, marketWs,
                   userWs, leaked, marketTask, userTask, marketPing, userPing, sent,
                   userSent, reads, missed, ping>>
    /\ UNCHANGED <<execVars, decoderVars, runnerVars, strategyVars, storageVars>>

\* run(), lines 278-295: both except clauses cancel the ping tasks, then
\* sleep reconnect_delay or leave the loop.
AfterError == IF autoReconnect /\ wsRunning THEN "sleep" ELSE "exit"

\* run(), lines 256-258, and _connect_market, line 143: the loop test
\* passes, connect() is called and waits for websockets.connect.
ConnectBegin ==
    /\ runAt = "top"
    /\ wsRunning
    /\ runAt' = "connecting"
    /\ UNCHANGED <<wsRunning, autoReconnect, hasKey, hasCreds, marketSubs, userSubs,
                   marketWs, userWs, leaked, via, marketTask, userTask, marketPing,
                   userPing, sent, userSent, reads, missed, ping>>
    /\ UNCHANGED <<execVars, decoderVars, runnerVars, strategyVars, storageVars>>

\* connect(), lines 131-172, from the answer of the venue, and run(), lines
\* 260-273, to the creation of the tasks.  market is what the venue does with
\* the market connection: "accept", "refuse" (websockets.connect raises) or
\* "drop" (the socket is closed before the subscribe frame is sent); user is
\* "accept" or "refuse" (_connect_user swallows the error).  A socket that is
\* still open when the manager replaces it stays open with its reader.
Connect(market, user) ==
    /\ runAt = "connecting"
    /\ market = "drop" => marketSubs # {}
    /\ IF market = "accept"
       THEN LET newUser == hasKey /\ user = "accept"
            IN /\ marketWs' = "open"
               /\ sent' = ConnectFrames(marketSubs)
               /\ reads' = 0
               /\ missed' = 0
               /\ userWs' = IF newUser THEN "open" ELSE userWs
               /\ userSent' = IF newUser THEN UserConnectFrames(userSubs, hasCreds)
                              ELSE userSent
               /\ leaked' = leaked \cup {ch \in Channels :
                                \/ ch = "market" /\ marketWs = "open"
                                \/ ch = "user" /\ newUser /\ userWs = "open"}
               /\ marketTask' = "reading"
               /\ marketPing' = "running"
               /\ userTask' = IF userWs' # "none" THEN "reading" ELSE "none"
               /\ userPing' = IF userWs' # "none" THEN "running" ELSE "none"
               /\ runAt' = "gather"
       ELSE /\ marketWs' = IF market = "drop" THEN "closed_err" ELSE marketWs
            /\ sent' = IF market = "drop" THEN <<>> ELSE sent
            /\ reads' = IF market = "drop" THEN 0 ELSE reads
            /\ leaked' = leaked \cup {ch \in Channels :
                             ch = "market" /\ market = "drop" /\ marketWs = "open"}
            /\ marketTask' = "none"
            /\ userTask' = "none"
            /\ marketPing' = "none"
            /\ userPing' = "none"
            /\ runAt' = AfterError
            /\ UNCHANGED <<userWs, userSent, missed>>
    /\ UNCHANGED <<wsRunning, autoReconnect, hasKey, hasCreds, marketSubs, userSubs,
                   via, ping>>
    /\ UNCHANGED <<execVars, decoderVars, runnerVars, strategyVars, storageVars>>

\* the venue takes the connections
ConnectAccepted == Connect("accept", "accept")

\* the venue refuses or drops a connection
ConnectFailed ==
    \E market \in {"accept", "refuse", "drop"}, user \in {"accept", "refuse"} :
        /\ <<market, user>> # <<"accept", "accept">>
        /\ market = "accept" => hasKey
        /\ Connect(market, user)

\* run(), line 256: the loop test fails.
LoopExit ==
    /\ runAt = "top"
    /\ ~wsRunning
    /\ runAt' = "exit"
    /\ UNCHANGED <<wsRunning, autoReconnect, hasKey, hasCreds, marketSubs, userSubs,
                   marketWs, userWs, leaked, via, marketTask, userTask, marketPing,
                   userPing, sent, userSent, reads, missed, ping>>
    /\ UNCHANGED <<execVars, decoderVars, runnerVars, strategyVars, storageVars>>

\* the venue or the network closes an open socket, one the manager holds or
\* one it has replaced
VenueClose ==
    /\ \/ \E how \in Closed :
             \/ marketWs = "open" /\ marketWs' = how /\ UNCHANGED <<userWs, leaked>>
             \/ userWs = "open" /\ userWs' = how /\ UNCHANGED <<marketWs, leaked>>
       \/ \E ch \in leaked : leaked' = leaked \ {ch} /\ UNCHANGED <<marketWs, userWs>>
    /\ UNCHANGED <<wsRunning, autoReconnect, hasKey, hasCreds, marketSubs, userSubs,
                   runAt, via, marketTask, userTask, marketPing, userPing, sent,
                   userSent, reads, missed, ping>>
    /\ UNCHANGED <<execVars, decoderVars, runnerVars, strategyVars, storageVars>>

\* the end of `async for message in ws` on a closed socket
TaskEnd(ws) == IF ws = "closed_ok" THEN "done" ELSE "raised"

\* _process_market_messages, lines 321-333.
MarketTaskStep ==
    /\ marketTask = "reading"
    /\ \/ /\ marketWs = "open"
          /\ reads < MaxReads
          /\ reads' = reads + 1
          /\ UNCHANGED marketTask
       \/ /\ marketWs \in Closed
          /\ marketTask' = TaskEnd(marketWs)
          /\ UNCHANGED reads
    /\ UNCHANGED <<wsRunning, autoReconnect, hasKey, hasCreds, marketSubs, userSubs,
                   marketWs, userWs, leaked, runAt, via, userTask, marketPing, userPing,
                   sent, userSent, missed, ping>>
    /\ UNCHANGED <<execVars, decoderVars, runnerVars, strategyVars, storageVars>>

\* _process_user_messages, lines 335-347, at the end of its socket.
UserTaskStep ==
    /\ userTask = "reading"
    /\ userWs \in Closed
    /\ userTask' = TaskEnd(userWs)
    /\ UNCHANGED <<wsRunning, autoReconnect, hasKey, hasCreds, marketSubs, userSubs,
                   marketWs, userWs, leaked, runAt, via, marketTask, marketPing,
                   userPing, sent, userSent, reads, missed, ping>>
    /\ UNCHANGED <<execVars, decoderVars, runnerVars, strategyVars, storageVars>>

\* the socket a channel's ping task was given is open
SocketOpen(ch) == IF ch = "market" THEN marketWs = "open" ELSE userWs = "open"

\* the ping task of a channel
PingTask(ch) == IF ch = "market" THEN marketPing ELSE userPing

\* _send_pings, lines 303-307: one pass of the loop sends PING.  The venue
\* answers PONG or stays silent; the answer is read by nobody, missed counts
\* the PINGs of the market socket left unanswered in a row.
PingSend ==
    \E ch \in Channels, answered \in BOOLEAN :
        /\ PingTask(ch) = "running"
        /\ PingLoopTest(wsRunning, SocketOpen(ch))
        /\ ping' = [ch |-> ch, open |-> SocketOpen(ch), running |-> wsRunning]
        /\ missed' = IF ch # "market" THEN missed
                     ELSE IF answered THEN 0
                     ELSE IF missed < MaxMissed THEN missed + 1 ELSE missed
        /\ UNCHANGED <<wsRunning, autoReconnect, hasKey, hasCreds, marketSubs,
                       userSubs, marketWs, userWs, leaked, runAt, via, marketTask,
                       userTask, marketPing, userPing, sent, userSent, reads>>
        /\ UNCHANGED <<execVars, decoderVars, runnerVars, strategyVars, storageVars>>

\* _send_pings, lines 297-312: the loop ends when the socket is no longer
\* open or _running is false; it never raises.
PingStep ==
    /\ \/ /\ marketPing = "running"
          /\ ~PingLoopTest(wsRunning, marketWs = "open")
          /\ marketPing' = "done"
          /\ UNCHANGED userPing
       \/ /\ userPing = "running"
          /\ ~PingLoopTest(wsRunning, userWs = "open")
          /\ userPing' = "done"
          /\ UNCHANGED marketPing
    /\ UNCHANGED <<wsRunning, autoReconnect, hasKey, hasCreds, marketSubs, userSubs,
                   marketWs, userWs, leaked, runAt, via, marketTask, userTask, sent,
                   userSent, reads, missed, ping>>
    /\ UNCHANGED <<execVars, decoderVars, runnerVars, strategyVars, storageVars>>

\* run(), lines 276-295: asyncio.gather raises the exception of the first
\* task that raised; the handler cancels the ping tasks.
GatherRaises ==
    /\ runAt = "gather"
    /\ marketTask = "raised" \/ userTask = "raised"
    /\ runAt' = AfterError
    /\ marketTask' = "none"
    /\ userTask' = "none"
    /\ marketPing' = "none"
    /\ userPing' = "none"
    /\ UNCHANGED <<wsRunning, autoReconnect, hasKey, hasCreds, marketSubs, userSubs,
                   marketWs, userWs, leaked, via, sent, userSent, reads, missed, ping>>
    /\ UNCHANGED <<execVars, decoderVars, runnerVars, strategyVars, storageVars>>

\* run(), lines 275-276 and 256: every task has ended without an exception,
\* gather returns and the loop goes round.
GatherReturns ==
    /\ runAt = "gather"
    /\ marketTask = "done"
    /\ marketPing = "done"
    /\ userTask \in {"none", "done"}
    /\ userPing \in {"none", "done"}
    /\ runAt' = "top"
    /\ via' = "gather"
    /\ UNCHANGED <<wsRunning, autoReconnect, hasKey, hasCreds, marketSubs, userSubs,
                   marketWs, userWs, leaked, marketTask, userTask, marketPing, userPing,
                   sent, userSent, reads, missed, ping>>
    /\ UNCHANGED <<execVars, decoderVars, runnerVars, strategyVars, storageVars>>

\* run(), lines 284 and 293: asyncio.sleep(reconnect_delay) is over.
SleepDone ==
    /\ runAt = "sleep"
    /\ runAt' = "top"
    /\ via' = "sleep"
    /\ UNCHANGED <<wsRunning, autoReconnect, hasKey, hasCreds, marketSubs, userSubs,
                   marketWs, userWs, leaked, marketTask, userTask, marketPing, userPing,
                   sent, userSent, reads, missed, ping>>
    /\ UNCHANGED <<execVars, decoderVars, runnerVars, strategyVars, storageVars>>

\* subscribe_market, lines 101-111.
Subscribe(token_ids) ==
    /\ marketSubs' = marketSubs \cup token_ids
    /\ IF marketWs = "open" /\ marketSubs' # {}
       THEN /\ Len(sent) < MaxSent
            /\ sent' = Append(sent, marketSubs')
       ELSE UNCHANGED sent
    /\ UNCHANGED <<wsRunning, autoReconnect, hasKey, hasCreds, userSubs, marketWs,
                   userWs, leaked, runAt, via, marketTask, userTask, marketPing,
                   userPing, userSent, reads, missed, ping>>
    /\ UNCHANGED <<execVars, decoderVars, runnerVars, strategyVars, storageVars>>

SubscribeMarket == \E token_ids \in SUBSET Tokens : Subscribe(token_ids)

\* unsubscribe_market, lines 113-115.
UnsubscribeMarket ==
    /\ \E token_ids \in SUBSET Tokens : marketSubs' = marketSubs \ token_ids
    /\ UNCHANGED <<wsRunning, autoReconnect, hasKey, hasCreds, userSubs, marketWs,
                   userWs, leaked, runAt, via, marketTask, userTask, marketPing,
                   userPing, sent, userSent, reads, missed, ping>>
    /\ UNCHANGED <<execVars, decoderVars, runnerVars, strategyVars, storageVars>>

\* subscribe_user, lines 117-127.
SubscribeUser ==
    /\ \E condition_ids \in SUBSET Conditions :
          /\ userSubs' = userSubs \cup condition_ids
          /\ IF userWs = "open"
             THEN /\ Len(userSent) < MaxSent
                  /\ userSent' = userSent \o UserSubscription(userSubs', hasCreds)
             ELSE UNCHANGED userSent
    /\ UNCHANGED <<wsRunning, autoReconnect, hasKey, hasCreds, marketSubs, marketWs,
                   userWs, leaked, runAt, via, marketTask, userTask, marketPing,
                   userPing, sent, reads, missed, ping>>
    /\ UNCHANGED <<execVars, decoderVars, runnerVars, strategyVars, storageVars>>

\* disconnect(), lines 227-248: the ping
\* tasks are cancelled, the sockets the manager holds are closed and
\* forgotten, and their readers end.  A ping task cancelled inside the gather
\* of run() ends run() with CancelledError; a gather whose ping tasks have
\* ended already goes on to its end.  A connect() that is waiting for the
\* venue is not touched.
DisconnectEffects ==
    LET cancelled == runAt = "gather" /\ "running" \in {marketPing, userPing}
        goesOn == runAt = "gather" /\ ~cancelled
    IN /\ wsRunning' = FALSE
       /\ marketWs' = "none"
       /\ userWs' = "none"
       /\ marketTask' = IF goesOn /\ marketTask # "none"
                        THEN (IF marketTask = "reading" THEN "done" ELSE marketTask)
                        ELSE "none"
       /\ userTask' = IF goesOn /\ userTask # "none"
                      THEN (IF userTask = "reading" THEN "done" ELSE userTask)
                      ELSE "none"
       /\ marketPing' = IF goesOn THEN marketPing ELSE "none"
       /\ userPing' = IF goesOn THEN userPing ELSE "none"
       /\ runAt' = IF cancelled THEN "exit" ELSE runAt
       /\ UNCHANGED <<autoReconnect, hasKey, hasCreds, marketSubs, userSubs, leaked,
                      via, sent, userSent, reads, missed, ping>>

\* disconnect() called once while _running is set
Disconnect ==
    /\ wsRunning
    /\ DisconnectEffects
    /\ UNCHANGED <<execVars, decoderVars, runnerVars, strategyVars, storageVars>>

\* the steps of run() itself
RunLoop ==
    \/ Run
    \/ ConnectBegin
    \/ LoopExit
    \/ GatherRaises
    \/ GatherReturns
    \/ SleepDone

\* the steps of the program itself
WsProgram ==
    \/ RunLoop
    \/ MarketTaskStep
    \/ UserTaskStep
    \/ PingStep

\* The run() loop with the market subscriptions.  The user subscriptions and
\* the PINGs touch none of the variables its steps read, and are followed in
\* the two specifications below.
WsNext ==
    \/ Run
    \/ ConnectBegin
    \/ ConnectAccepted
    \/ ConnectFailed
    \/ LoopExit
    \/ VenueClose
    \/ MarketTaskStep
    \/ UserTaskStep
    \/ PingStep
    \/ GatherRaises
    \/ GatherReturns
    \/ SleepDone
    \/ SubscribeMarket
    \/ UnsubscribeMarket
    \/ Disconnect

WsInit ==
    /\ EngineInit /\ mode = "live"
    /\ DecoderIdle
    /\ RunnerIdle /\ StrategyIdle /\ StorageIdle
    /\ \E auto \in BOOLEAN, key \in BOOLEAN : WsIdle(auto, key, FALSE)

WsSpec == WsInit /\ [][WsNext]_vars

\* The event loop runs every task that can take a step, and the venue
\* accepts connections: a connect that is tried again and again succeeds.
WsFairSpec ==
    /\ WsSpec
    /\ WF_vars(RunLoop)
    /\ WF_vars(MarketTaskStep)
    /\ WF_vars(UserTaskStep)
    /\ WF_vars(PingStep)
    /\ SF_vars(ConnectAccepted)

\* The run() loop with the user subscriptions.
UserNext ==
    \/ Run
    \/ ConnectBegin
    \/ ConnectAccepted
    \/ ConnectFailed
    \/ LoopExit
    \/ VenueClose
    \/ MarketTaskStep
    \/ UserTaskStep
    \/ PingStep
    \/ GatherRaises
    \/ GatherReturns
    \/ SleepDone
    \/ SubscribeUser
    \/ Disconnect

UserInit ==
    /\ EngineInit /\ mode = "live"
    /\ DecoderIdle
    /\ RunnerIdle /\ StrategyIdle /\ StorageIdle
    /\ \E auto \in BOOLEAN, key \in BOOLEAN, creds \in BOOLEAN : WsIdle(auto, key, creds)

UserSpec == UserInit /\ [][UserNext]_vars

\* The run() loop with the PINGs of the ping tasks.
PingNext ==
    \/ Run
    \/ ConnectBegin
    \/ ConnectAccepted
    \/ ConnectFailed
    \/ LoopExit
    \/ VenueClose
    \/ MarketTaskStep
    \/ UserTaskStep
    \/ PingSend
    \/ PingStep
    \/ GatherRaises
    \/ GatherReturns
    \/ SleepDone
    \/ Disconnect

PingSpec == WsInit /\ [][PingNext]_vars

PingFairSpec ==
    /\ PingSpec
    /\ WF_vars(RunLoop)
    /\ WF_vars(MarketTaskStep)
    /\ WF_vars(UserTaskStep)
    /\ WF_vars(PingStep)
    /\ SF_vars(ConnectAccepted)

----------------------------------------------------------------------------
(* strategy/runner.py: StrategyRunner.run and stop, the heartbeat loop and  *)
(* the callbacks registered on the WebSocketManager.  The event loop runs   *)
(* one task at a time, from the point where the task is woken to its next   *)
(* await.                                                                    *)

\* The markets a strategy names, as the venue's API describes them (client.py
\* _parse_market): two markets with token ids of their own.
MarketIds == {"M1", "M2"}
TokenYes(m) == IF m = "M1" THEN "T1" ELSE "T3"
TokenNo(m) == IF m = "M1" THEN "T2" ELSE "T4"

\* the price of both sides of a market when it is loaded, in hundredths: a
\* value of the venue, any other would do
LoadedPrice == 50

LoadedMarket(m) ==
    [yes |-> TokenYes(m), no |-> TokenNo(m),
     price_yes |-> LoadedPrice, price_no |-> LoadedPrice]

\* _load_markets, lines 138-156: Strategy._markets once the markets ids have
\* been loaded.
LoadedCache(ids) == [m \in ids |-> LoadedMarket(m)]

\* the sets of markets a run loads
LoadedSets == {{"M1"}, {"M1", "M2"}}

\* run(), lines 60-63: the token ids handed to subscribe_market.
CacheTokens(cache) == UNION {{cache[m].yes, cache[m].no} : m \in DOMAIN cache}

\* the order of Strategy._markets.values(): the order of insertion
Rank(m) == IF m = "M1" THEN 1 ELSE 2

\* lines 163-167 (and 185-189, 232-236): the first market of the cache that
\* has the token as its YES or NO token; the empty set if there is none.
FirstMatch(cache, token) ==
    LET ms == {m \in DOMAIN cache : token \in {cache[m].yes, cache[m].no}}
    IN {m \in ms : \A o \in ms : Rank(m) <= Rank(o)}

\* an invocation of a hook of the Strategy, and whether it raised
Hook(name, market, price, raised) ==
    [name |-> name, market |-> market, price |-> price, raised |-> raised]

\* the tokens and prices of the price events, a token of no market included
EventTokens == {"T1", "T2", "T3", "T4", "TX"}
EventPrices == {0, 65}

\* OnPriceUpdate that writes price_yes whichever token the event names.
OnPriceUpdate_AlwaysYes(cache, token, price, raises) ==
    LET ms == FirstMatch(cache, token)
    IN IF ms = {} THEN [markets |-> cache, hooks |-> <<>>]
       ELSE LET m == CHOOSE x \in ms : TRUE
            IN [markets |-> [cache EXCEPT ![m].price_yes = price],
                hooks |-> <<Hook("on_price_update", m, price, raises)>>
                          \o (IF raises THEN <<Hook("on_error", "", 0, FALSE)>>
                              ELSE <<>>)]

\* on_price_update, lines 161-180: the cache after the call and the hooks
\* invoked; raises tells whether Strategy.on_price_update raises.
OnPriceUpdate(cache, token, price, raises) ==
    LET ms == FirstMatch(cache, token)
    IN IF ms = {} THEN [markets |-> cache, hooks |-> <<>>]
       ELSE LET m == CHOOSE x \in ms : TRUE
            IN [markets |-> IF cache[m].yes = token
                            THEN [cache EXCEPT ![m].price_yes = price]
                            ELSE [cache EXCEPT ![m].price_no = price],
                hooks |-> <<Hook("on_price_update", m, price, raises)>>
                          \o (IF raises THEN <<Hook("on_error", "", 0, FALSE)>>
                              ELSE <<>>)]

\* on_orderbook_update, lines 182-194: the hooks invoked.
OnOrderbookUpdate(cache, asset_id, raises) ==
    LET ms == FirstMatch(cache, asset_id)
    IN IF ms = {} THEN <<>>
       ELSE <<Hook("on_orderbook_update", CHOOSE x \in ms : TRUE, 0, raises)>>

\* on_trade, lines 229-242: the hooks invoked; defined tells whether the
\* strategy has an on_market_trade.
OnTrade(cache, asset_id, defined, raises) ==
    LET ms == FirstMatch(cache, asset_id)
    IN IF ms = {} \/ ~defined THEN <<>>
       ELSE <<Hook("on_market_trade", CHOOSE x \in ms : TRUE, 0, raises)>>

\* on_order_update, lines 199-227: the hooks invoked.
OnFill(etype, oid, raises) ==
    IF oid \in stratIds /\ etype = "order_fill"
    THEN <<Hook("on_fill", "", 0, raises)>>
    ELSE <<>>

\* _heartbeat_loop, lines 123-136: the hooks invoked by one beat; defined
\* tells whether the strategy has an on_heartbeat.
Heartbeat(defined, raises) ==
    IF defined THEN <<Hook("on_heartbeat", "", 0, raises)>> ELSE <<>>

\* how run() gets from its first line to asyncio.wait: everything goes well,
\* _load_markets raises, the process is interrupted while the markets are
\* loaded, or on_start raises
StartOutcomes == {"ok", "load_raises", "interrupt", "start_raises"}

\* run(), lines 52-76 and 92-96: ids are the markets loaded when the outcome
\* is met.  subscribe_market (websocket.py lines 101-111) finds no socket and
\* only adds to the set.
Start(ids, outcome) ==
    LET cache == LoadedCache(ids)
        loaded == outcome \in {"ok", "start_raises"}
    IN /\ hAt = "new"
       /\ markets' = cache
       /\ marketSubs' = IF loaded THEN marketSubs \cup CacheTokens(cache) ELSE marketSubs
       /\ started' = loaded
       /\ hooks' = CASE outcome = "ok" -> <<Hook("on_start", "", 0, FALSE)>>
                     [] outcome = "start_raises" ->
                            <<Hook("on_start", "", 0, TRUE), Hook("on_error", "", 0, FALSE)>>
                     [] outcome = "load_raises" -> <<Hook("on_error", "", 0, FALSE)>>
                     [] OTHER -> <<>>
       /\ launched' = (outcome = "ok")
       /\ hAt' = IF outcome = "ok" THEN "waiting" ELSE "stopping"
       /\ UNCHANGED <<onLoop, inCallback, event, nEvents>>
       /\ UNCHANGED <<wsRunning, autoReconnect, hasKey, hasCreds, userSubs, marketWs,
                      userWs, leaked, runAt, via, marketTask, userTask, marketPing,
                      userPing, sent, userSent, reads, missed, ping>>
       /\ UNCHANGED <<execVars, decoderVars, strategyVars, storageVars>>

HarnessStart == \E ids \in LoadedSets, outcome \in StartOutcomes : Start(ids, outcome)

\* the websocket task created at line 76 starts to run
HarnessRun ==
    /\ launched
    /\ Run

\* run(), lines 79-90: asyncio.wait returns because websocket.run() has
\* ended; the heartbeat task is cancelled.
HarnessWaitDone ==
    /\ hAt = "waiting"
    /\ runAt = "exit"
    /\ hAt' = "stopping"
    /\ hooks' = <<>>
    /\ UNCHANGED <<launched, started, markets, onLoop, inCallback, event, nEvents>>
    /\ UNCHANGED <<execVars, decoderVars, wsVars, strategyVars, storageVars>>

\* run(), line 79: the task of run() is cancelled while it waits (the
\* process is interrupted): the two tasks are left as they are.
HarnessCancel ==
    /\ hAt = "waiting"
    /\ onLoop = "none"
    /\ hAt' = "stopping"
    /\ hooks' = <<>>
    /\ UNCHANGED <<launched, started, markets, onLoop, inCallback, event, nEvents>>
    /\ UNCHANGED <<execVars, decoderVars, wsVars, strategyVars, storageVars>>

\* run(), lines 97-98, and stop(), lines 100-111: on_stop is called, then
\* websocket.disconnect(); an on_stop that raises ends stop() there.
Stop(raises) ==
    /\ hAt = "stopping"
    /\ onLoop = "none"
    /\ hAt' = "stopped"
    /\ hooks' = <<Hook("on_stop", "", 0, raises)>>
    /\ IF raises THEN UNCHANGED wsVars ELSE DisconnectEffects
    /\ UNCHANGED <<launched, started, markets, onLoop, inCallback, event, nEvents>>
    /\ UNCHANGED <<execVars, decoderVars, strategyVars, storageVars>>

HarnessStop == \E raises \in BOOLEAN : Stop(raises)

Tasks == {"market", "user", "heartbeat"}

\* CallbackHoldsLoop for callbacks that give the event loop away.
CallbackHoldsLoop_Awaited == FALSE

\* websocket.py lines 372, 379, 386, 397 and runner.py line 126: the
\* callbacks are plain calls, nothing is awaited between the call and the
\* return, so the task keeps the event loop while a callback runs.
CallbackHoldsLoop == TRUE

\* The event loop wakes task t for event e, and the task makes the calls h
\* before its next await.
Begin(t, e, h) ==
    /\ hAt = "waiting"
    /\ onLoop = "none"
    /\ t \notin inCallback
    /\ nEvents < MaxEvents
    /\ nEvents' = nEvents + 1
    /\ event' = e
    /\ hooks' = h
    /\ inCallback' = IF h # <<>> THEN inCallback \cup {t} ELSE inCallback
    /\ onLoop' = IF h # <<>> /\ CallbackHoldsLoop THEN t ELSE "none"
    /\ UNCHANGED <<hAt, launched, started>>

\* _handle_single_market_message, websocket.py lines 366-374, for one
\* decoded price update.
PriceEvent(token, price, raises) ==
    LET r == OnPriceUpdate(markets, token, price, raises)
    IN /\ Begin("market", [kind |-> "price", token |-> token, price |-> price],
                r.hooks)
       /\ markets' = r.markets
       /\ UNCHANGED <<execVars, decoderVars, wsVars, strategyVars, storageVars>>

DispatchPrice ==
    \E token \in EventTokens, price \in EventPrices, raises \in BOOLEAN :
        PriceEvent(token, price, raises)

\* _handle_single_market_message, websocket.py lines 376-381.
DispatchBook ==
    \E token \in EventTokens, raises \in BOOLEAN :
        /\ Begin("market", [kind |-> "book", token |-> token, price |-> 0],
                 OnOrderbookUpdate(markets, token, raises))
        /\ UNCHANGED markets
        /\ UNCHANGED <<execVars, decoderVars, wsVars, strategyVars, storageVars>>

\* _handle_single_market_message, websocket.py lines 383-388.
DispatchTrade ==
    \E token \in EventTokens, defined \in BOOLEAN, raises \in BOOLEAN :
        /\ Begin("market", [kind |-> "trade", token |-> token, price |-> 0],
                 OnTrade(markets, token, defined, raises))
        /\ UNCHANGED markets
        /\ UNCHANGED <<execVars, decoderVars, wsVars, strategyVars, storageVars>>

\* _handle_user_message, websocket.py lines 390-399, with on_order_update.
DispatchFill ==
    \E etype \in EventTypes, oid \in VenueIds, price \in FillPrices, size \in FillSizes,
       raises \in BOOLEAN :
        /\ Len(stratTrades) < MaxFills
        /\ Begin("user", [kind |-> etype, token |-> "", price |-> 0],
                 OnFill(etype, oid, raises))
        /\ OrderUpdateEffects(etype, oid, price, size, "")
        /\ UNCHANGED markets
        /\ UNCHANGED <<decoderVars, wsVars, strategyVars, storageVars>>

\* _heartbeat_loop, lines 117-136: one beat.
HeartbeatTick ==
    \E defined \in BOOLEAN, raises \in BOOLEAN :
        /\ Begin("heartbeat", [kind |-> "heartbeat", token |-> "", price |-> 0],
                 Heartbeat(defined, raises))
        /\ UNCHANGED markets
        /\ UNCHANGED <<execVars, decoderVars, wsVars, strategyVars, storageVars>>

\* the callbacks of a task return (or raise into the handler that called
\* them) and the task goes back to its await
DispatchEnd ==
    /\ \E t \in inCallback :
          /\ inCallback' = inCallback \ {t}
          /\ onLoop' = "none"
    /\ UNCHANGED <<hAt, launched, started, hooks, markets, event, nEvents>>
    /\ UNCHANGED <<execVars, decoderVars, wsVars, strategyVars, storageVars>>

\* a callback of the strategy places a live order (Strategy.buy, base.py)
PlaceOrder ==
    /\ inCallback # {}
    /\ orders = <<>>
    /\ CreateOrder("T1", "BUY", Milli, MaxSize, "LIMIT", TRUE, TRUE)

\* a receive loop of the market channel is reading an open socket: the loop
\* of this round of run(), or the loop of a socket that run() has replaced
MarketReaderAlive ==
    \/ marketTask = "reading" /\ marketWs = "open"
    \/ "market" \in leaked

\* _process_market_messages, websocket.py lines 326-329, through
\* _handle_single_market_message (366-374) to the runner's on_price_update
\* (runner.py 161-180): the venue sends a price change of the YES token of
\* market M1 and the receive loop handles it.
ReadPrice ==
    /\ MarketReaderAlive
    /\ onLoop = "none"
    /\ reads < MaxReads
    /\ reads' = reads + 1
    /\ LET r == OnPriceUpdate(markets, TokenYes("M1"), 65, FALSE)
       IN /\ markets' = r.markets
          /\ hooks' = r.hooks
          /\ event' = [kind |-> "price", token |-> TokenYes("M1"), price |-> 65]
    /\ UNCHANGED <<hAt, launched, started, onLoop, inCallback, nEvents>>
    /\ UNCHANGED <<wsRunning, autoReconnect, hasKey, hasCreds, marketSubs, userSubs,
                   marketWs, userWs, leaked, runAt, via, marketTask, userTask,
                   marketPing, userPing, sent, userSent, missed, ping>>
    /\ UNCHANGED <<execVars, decoderVars, strategyVars, storageVars>>

\* The harness from run() to the end of stop(), with the WebSocketManager it
\* launches and the heartbeat.
HarnessNext ==
    \/ HarnessStart
    \/ HarnessRun
    \/ ConnectBegin
    \/ ConnectAccepted
    \/ ConnectFailed
    \/ LoopExit
    \/ VenueClose
    \/ MarketTaskStep
    \/ ReadPrice
    \/ UserTaskStep
    \/ PingStep
    \/ GatherRaises
    \/ GatherReturns
    \/ SleepDone
    \/ HeartbeatTick
    \/ DispatchEnd
    \/ HarnessWaitDone
    \/ HarnessCancel
    \/ HarnessStop

HarnessInit ==
    /\ EngineInit /\ mode = "live"
    /\ DecoderIdle
    /\ RunnerIdle /\ StrategyIdle /\ StorageIdle
    /\ \E auto \in BOOLEAN, key \in BOOLEAN : WsIdle(auto, key, FALSE)

HarnessSpec == HarnessInit /\ [][HarnessNext]_vars

\* The harness while it waits: the events its three tasks dispatch to the
\* strategy.
DispatchNext ==
    \/ HarnessStart
    \/ DispatchPrice
    \/ DispatchBook
    \/ DispatchTrade
    \/ DispatchFill
    \/ HeartbeatTick
    \/ DispatchEnd
    \/ PlaceOrder

DispatchSpec == HarnessInit /\ [][DispatchNext]_vars

----------------------------------------------------------------------------
(* strategy/base.py: the trading methods and the views of a Strategy that   *)
(* has the runner's executor attached.                                       *)

\* config "strategy.default_size", base.py line 196
DefaultSize == 100

Outcomes == {"YES", "NO"}

\* an optional argument: <<>> when it is omitted (None), <<v>> when given
OptSizes == {<<>>} \cup {<<s>> : s \in SizeInputs}
OptPrices == {<<>>} \cup {<<0>>, <<Milli>>}

\* a price of the market cache, in hundredths, as a price of the engine
Units(p) == (p * One) \div 100

\* base.py lines 198-199 and 237-238: the token and the cached price of an
\* outcome of a market.
OutcomeToken(m, outcome) == IF outcome = "YES" THEN m.yes ELSE m.no
OutcomePrice(m, outcome) == Units(IF outcome = "YES" THEN m.price_yes ELSE m.price_no)

\* Python's `x or default` for an optional number: the default is taken when
\* x is None and also when x is 0.
OrDefault(x, default) == IF x = <<>> \/ x[1] = 0 THEN default ELSE x[1]

\* Strategy.buy, lines 196-200: the arguments handed to _create_order.
BuyArgs(m, size, price, outcome) ==
    [token |-> OutcomeToken(m, outcome),
     price |-> OrDefault(price, OutcomePrice(m, outcome)),
     size |-> OrDefault(size, DefaultSize)]

\* Strategy.sell, lines 237-249: the arguments handed to _create_order, and
\* whether the call gets that far; ps is Strategy._positions.
SellArgs(m, size, price, outcome, ps) ==
    LET token == OutcomeToken(m, outcome)
        sz == IF size = <<>>
              THEN (IF token \in DOMAIN ps THEN ps[token].size ELSE 0)
              ELSE size[1]
    IN [token |-> token,
        price |-> OrDefault(price, OutcomePrice(m, outcome)),
        size |-> sz,
        submit |-> sz > 0]

\* Strategy.position, lines 334-347.
Position(m, outcome) ==
    LET token == OutcomeToken(m, outcome)
    IN IF token \in DOMAIN stratPositions THEN stratPositions[token].size ELSE 0

\* OrderExecutor.equity, executor.py lines 317-324, in paper mode.
ExecutorEquity == RAdd(RInt(balance), CostBasis)

TheCall(op, mid, size, price, outcome) ==
    [op |-> op, market |-> mid, size |-> size, price |-> price, outcome |-> outcome]

\* Strategy.buy, lines 177-216, with _create_order, lines 303-322; nothing
\* in the package writes Strategy._positions.
Buy(mid, size, price, outcome) ==
    LET a == BuyArgs(markets[mid], size, price, outcome)
    IN /\ CreateEffects(a.token, "BUY", a.price, a.size, "LIMIT", TRUE, TRUE)
       /\ call' = TheCall("buy", mid, size, price, outcome)
       /\ UNCHANGED stratPositions
       /\ UNCHANGED <<decoderVars, wsVars, runnerVars, storageVars>>

\* Strategy.sell, lines 218-265.
Sell(mid, size, price, outcome) ==
    LET a == SellArgs(markets[mid], size, price, outcome, stratPositions)
    IN /\ IF a.submit
          THEN CreateEffects(a.token, "SELL", a.price, a.size, "LIMIT", TRUE, TRUE)
          ELSE /\ Len(orders) < OrderCap
               /\ lastOp' = Call("sell", "size", None, FALSE)
               /\ effects' = <<>>
               /\ UNCHANGED <<engine, stratIds, mode, slippage, stratTrades>>
       /\ call' = TheCall("sell", mid, size, price, outcome)
       /\ UNCHANGED stratPositions
       /\ UNCHANGED <<decoderVars, wsVars, runnerVars, storageVars>>

\* a callback of the strategy trades on a market it was handed
StrategyBuy ==
    /\ hAt = "waiting"
    /\ \E mid \in DOMAIN markets, size \in OptSizes, price \in OptPrices,
          outcome \in Outcomes : Buy(mid, size, price, outcome)

StrategySell ==
    /\ hAt = "waiting"
    /\ \E mid \in DOMAIN markets, size \in OptSizes, price \in OptPrices,
          outcome \in Outcomes : Sell(mid, size, price, outcome)

\* the venue sends a price of the YES token of market M1
YesPrice == \E price \in EventPrices : PriceEvent(TokenYes("M1"), price, FALSE)

\* A strategy in paper mode: the price events of a market and its trades.
StrategyNext ==
    \/ HarnessStart
    \/ YesPrice
    \/ DispatchEnd
    \/ StrategyBuy
    \/ StrategySell

StrategyInit ==
    /\ EngineInit /\ mode = "paper"
    /\ DecoderIdle
    /\ WsIdle(TRUE, FALSE, FALSE)
    /\ RunnerIdle /\ StrategyIdle /\ StorageIdle

StrategySpec == StrategyInit /\ [][StrategyNext]_vars

\* ---------------------------------------------------------------------
\* Storage (data/storage.py): the orders table of the SQLite database.
\* A datetime is <<t>> with t a tick of the clock, an absent one is <<>>.

\* the number of save_order calls followed
MaxSaves == 102

\* get_orders, storage.py line 177: limit: int = 100
DefaultLimit == 100

\* the limit the tests and the command line pass (test_storage.py line 50)
Limits == {DefaultLimit, 10}

\* datetime.isoformat(), storage.py lines 157-159: the text of the column,
\* NULL for an absent time.
IsoFormat(d) == IF d = <<>> THEN [null |-> TRUE] ELSE [iso |-> d[1]]

\* datetime.fromisoformat(), storage.py lines 213-215
FromIsoFormat(c) == IF "null" \in DOMAIN c THEN <<>> ELSE <<c.iso>>

\* The parameters of the INSERT, storage.py lines 145-159: the enum members
\* by their value, is_paper as 1 or 0, the times as text.
OrderToRow(o) ==
    [id |-> o.id, market_id |-> o.market_id, token_id |-> o.token_id,
     side |-> o.side.value, order_type |-> o.order_type.value,
     status |-> o.status.value, price |-> o.price, size |-> o.size,
     filled_size |-> o.filled_size,
     is_paper |-> IF o.is_paper THEN 1 ELSE 0,
     created_at |-> IsoFormat(o.created_at),
     updated_at |-> IsoFormat(o.updated_at),
     filled_at |-> IsoFormat(o.filled_at)]

\* OrderSide(row[3]), OrderType(row[4]), OrderStatus(row[5]): the member of
\* the enum with that value (models.py lines 13-32).
Member(enum, value) == [enum |-> enum, value |-> value]

\* Storage._row_to_order, storage.py lines 199-215
RowToOrder(row) ==
    [id |-> row.id, market_id |-> row.market_id, token_id |-> row.token_id,
     side |-> Member("OrderSide", row.side),
     order_type |-> Member("OrderType", row.order_type),
     status |-> Member("OrderStatus", row.status),
     price |-> row.price, size |-> row.size,
     filled_size |-> row.filled_size,
     is_paper |-> row.is_paper # 0,
     created_at |-> FromIsoFormat(row.created_at),
     updated_at |-> FromIsoFormat(row.updated_at),
     filled_at |-> FromIsoFormat(row.filled_at)]

\* INSERT without OR REPLACE, were the primary key not declared
InsertOrReplace_Insert(rows, row) == rows \cup {row}

\* INSERT OR REPLACE INTO orders, storage.py lines 140-144, with
\* id TEXT PRIMARY KEY (line 60): the row of that id is deleted first.
InsertOrReplace(rows, row) == {r \in rows : r.id # row.id} \cup {row}

\* ORDER BY created_at DESC: row q comes before row r. The orders followed
\* are created at different times, so the order of the rows is total.
Before(q, r) == q.created_at.iso > r.created_at.iso

\* SELECT * FROM orders WHERE 1=1 ORDER BY created_at DESC LIMIT ?,
\* storage.py lines 179-197, with no market_id and no status filter.
GetOrders(rows, limit) ==
    LET n == IF Cardinality(rows) < limit THEN Cardinality(rows) ELSE limit
        ahead == [r \in rows |-> Cardinality({q \in rows : Before(q, r)})]
        nth(i) == CHOOSE r \in rows : ahead[r] = i - 1
    IN [i \in 1 .. n |-> RowToOrder(nth(i))]

\* SELECT * FROM orders WHERE id = ?, storage.py lines 162-171
GetOrder(rows, id) ==
    IF \E r \in rows : r.id = id
    THEN <<RowToOrder(CHOOSE r \in rows : r.id = id)>>
    ELSE <<>>

\* Order(...), models.py lines 89-110: the n-th order of the session, open,
\* created at tick n (created_at defaults to datetime.now()).
NewOrder(n, paper) ==
    [id |-> n, market_id |-> "M1", token_id |-> "T1",
     side |-> Member("OrderSide", "BUY"),
     order_type |-> Member("OrderType", "LIMIT"),
     status |-> Member("OrderStatus", "OPEN"),
     price |-> Milli, size |-> 1, filled_size |-> 0,
     is_paper |-> paper,
     created_at |-> <<n>>, updated_at |-> <<>>, filled_at |-> <<>>]

\* the order object with its status set to FILLED (test_storage.py line 136)
\* at tick t
Filled(o, t) ==
    [o EXCEPT !.status = Member("OrderStatus", "FILLED"),
              !.filled_size = o.size, !.updated_at = <<t>>,
              !.filled_at = <<t>>]

\* the number of orders created so far: each has a row of its own
Created == Cardinality(table)

\* Storage.save_order, storage.py lines 136-160
SaveOrder(o) ==
    /\ table' = InsertOrReplace(table, OrderToRow(o))
    /\ listed' = <<>>
    /\ storeOp' = [op |-> "save_order", order |-> <<o>>, limit |-> 0]
    /\ UNCHANGED <<execVars, decoderVars, wsVars, runnerVars, strategyVars>>

\* a new order is saved
SaveNew ==
    /\ Created < MaxSaves
    /\ \E paper \in IF Created = 0 THEN BOOLEAN ELSE {FALSE} :
          SaveOrder(NewOrder(Created + 1, paper))

\* the order just saved is saved again, unchanged
SaveAgain ==
    /\ storeOp.op = "save_order"
    /\ SaveOrder(storeOp.order[1])

\* the numbers of orders created when the first order may fill
FillAfter == {1, DefaultLimit, DefaultLimit + 1}

\* the first order of the session fills and is saved with its new status
SaveFilled ==
    /\ Created \in FillAfter
    /\ LET o == GetOrder(table, 1)[1]
       IN /\ o.status.value = "OPEN"
          /\ SaveOrder(Filled(o, Created + 1))

\* Storage.get_orders(limit=...), storage.py lines 173-197, after a save
ListOrders ==
    /\ storeOp.op # "none"
    /\ \E limit \in Limits :
          /\ listed' = GetOrders(table, limit)
          /\ storeOp' = [storeOp EXCEPT !.op = "get_orders", !.limit = limit]
    /\ UNCHANGED table
    /\ UNCHANGED <<execVars, decoderVars, wsVars, runnerVars, strategyVars>>

StorageNext == SaveNew \/ SaveAgain \/ SaveFilled \/ ListOrders

StorageInit ==
    /\ EngineInit /\ mode = "paper"
    /\ DecoderIdle
    /\ WsIdle(TRUE, FALSE, FALSE)
    /\ RunnerIdle /\ StrategyIdle /\ StorageIdle

StorageSpec == StorageInit /\ [][StorageNext]_vars

TypeOK ==
    /\ <<mode, slippage>> \in Configs
    /\ balance \in Int
    /\ Len(orders) <= MaxOrders
    /\ \A i \in 1 .. Len(orders) :
          /\ orders[i].status \in Statuses
          /\ orders[i].side \in Sides
          /\ orders[i].token \in Tokens
    /\ execIds \subseteq 1 .. Len(orders)
    /\ stratIds \subseteq execIds
    /\ DOMAIN positions \subseteq Tokens
    /\ Len(stratTrades) <= MaxFills + 1

----------------------------------------------------------------------------
(* Properties *)

\* Trade.value summed over the engine's trades, sells positive, buys negative.
RECURSIVE SignedSum(_)
SignedSum(ts) ==
    IF ts = <<>> THEN 0
    ELSE (IF Head(ts).side = "SELL" THEN TradeValue(Head(ts)) ELSE -TradeValue(Head(ts)))
         + SignedSum(Tail(ts))

\* balance + sum(size * avg_entry) + sum(realized_pnl) - starting_balance
AccountingLhs ==
    RSub(RAdd(RAdd(RInt(balance), CostBasis), RealizedPnl), RInt(StartingBalance))

\* An intent fails a pre-trade check, in the words of the checks' list.
FailsPreTrade(token, side, price, size) ==
    \/ size <= 0
    \/ price <= 0
    \/ price >= One
    \/ side = "BUY" /\ price * size > balance
    \/ side = "SELL" /\ token \notin DOMAIN positions
    \/ side = "SELL" /\ token \in DOMAIN positions /\ positions[token].size < size

\* C1: a create_order call that fails a pre-trade check returns no order and
\* leaves balance, order map, position map and trade list as they were.
C1_RejectedOrderChangesNothing ==
    /\ [](\A token \in Tokens, side \in Sides, price \in PriceInputs,
             size \in SizeInputs,
             venueAccepts \in IF mode = "paper" THEN {TRUE} ELSE BOOLEAN :
             FailsPreTrade(token, side, price, size)
             => CreateOutcome(token, side, price, size, venueAccepts)
                   \notin {"ok", "venue"})
    /\ [][(lastOp'.op = "create_order"
           /\ lastOp'.why \in {"size", "price", "balance", "position"})
          => (/\ lastOp'.ret = None
              /\ ~lastOp'.ok
              /\ UNCHANGED <<balance, orders, execIds, stratIds, positions, trades>>)]_vars

\* an over-sell was refused after a buy had been filled (scenario S2)
C1_Witness ==
    /\ lastOp.op = "create_order"
    /\ lastOp.why = "position"
    /\ lastOp.ret = None
    /\ Len(trades) = 1
    /\ DOMAIN positions # {}

\* The acceptance condition of paper mode, in the words of the claim.
PaperAccepts(token, side, price, size) ==
    /\ size > 0
    /\ 0 < price /\ price < One
    /\ side = "BUY" => price * size <= balance
    /\ side = "SELL" => (token \in DOMAIN positions /\ positions[token].size >= size)

\* C2: in paper mode create_order returns an order exactly when size > 0,
\* 0 < price < 1, a BUY costs no more than the balance and a SELL is covered
\* by the position held in that token.
C2_PaperAcceptsIff ==
    mode = "paper"
    => /\ \A token \in Tokens, side \in Sides, price \in PriceInputs,
             size \in SizeInputs, venueAccepts \in VenueAnswers :
             CreateOutcome(token, side, price, size, venueAccepts) = "ok"
             <=> PaperAccepts(token, side, price, size)
       /\ lastOp.op = "create_order"
             => (/\ lastOp.ret # None <=> lastOp.why = "ok"
                 /\ lastOp.ret # None => lastOp.ret \in execIds)

\* a SELL of exactly the held size was accepted: the position is gone
C2_Witness ==
    /\ mode = "paper"
    /\ lastOp.op = "create_order"
    /\ lastOp.ret # None
    /\ orders[lastOp.ret].side = "SELL"
    /\ orders[lastOp.ret].token \notin DOMAIN positions

\* C3 as stated: balance + sum(size * avg_entry) + sum(realized_pnl)
\* - starting_balance equals the signed sum of all trade values.
C3_AsStated == AccountingLhs = RInt(SignedSum(trades))

\* C3 as amended: balance - starting_balance equals the signed sum of all
\* trade values, so the stated expression exceeds that sum by exactly
\* sum(size * avg_entry) + sum(realized_pnl) of the open positions.
C3_CashMatchesTrades ==
    /\ balance - StartingBalance = SignedSum(trades)
    /\ AccountingLhs = RAdd(RInt(SignedSum(trades)), RAdd(CostBasis, RealizedPnl))

\* a position still open after a sell at a profit or loss
C3_Witness ==
    /\ Len(trades) >= 2
    /\ \E t \in DOMAIN positions : positions[t].realized # RInt(0)

\* C4: every order known to the engine or the strategy has
\* 0 <= filled_size <= size.
C4_FilledWithinSize ==
    \A i \in execIds \cup stratIds :
        0 <= orders[i].filled /\ orders[i].filled <= orders[i].size

StatusRank(st) == IF st = "PENDING" THEN 0 ELSE IF st = "OPEN" THEN 1 ELSE 2

\* C5: status only moves forward along PENDING -> OPEN -> {PARTIALLY_FILLED,
\* FILLED, CANCELLED, REJECTED}, and an order that is FILLED or CANCELLED
\* keeps its status and its filled_size.
C5_StatusForwardAndTerminal ==
    [][\A i \in 1 .. Len(orders) :
          /\ StatusRank(orders'[i].status) >= StatusRank(orders[i].status)
          /\ orders[i].status \in {"FILLED", "CANCELLED"}
                => (/\ orders'[i].status = orders[i].status
                    /\ orders'[i].filled = orders[i].filled)]_vars

\* C6: every entry of the engine's position map has size > 0.
C6_PositionsPositive == \A t \in DOMAIN positions : positions[t].size > 0

\* a sell brought a position to zero: its token has left the map
C6_Witness ==
    \E i \in 1 .. Len(trades) :
        trades[i].side = "SELL" /\ trades[i].token \notin DOMAIN positions

\* C7: paper mode, zero slippage, a fresh engine: after an accepted BUY of
\* size s at p1 and an accepted SELL of the same token and size at p2, both
\* orders are FILLED, balance = starting_balance - p1*s + p2*s, the position
\* is removed and the total realized P&L is (p2 - p1)*s.
C7_BuySellCycle ==
    (/\ mode = "paper" /\ slippage = 0
     /\ Len(orders) = 2 /\ execIds = {1, 2}
     /\ orders[1].side = "BUY" /\ orders[2].side = "SELL"
     /\ orders[1].token = orders[2].token
     /\ orders[1].size = orders[2].size)
    => LET p1 == orders[1].price
           p2 == orders[2].price
           s == orders[1].size
       IN /\ orders[1].status = "FILLED" /\ orders[2].status = "FILLED"
          /\ balance = StartingBalance - p1 * s + p2 * s
          /\ orders[1].token \notin DOMAIN positions
          /\ RealizedPnl = RInt((p2 - p1) * s)

\* C8: cancel_order on an order that is neither OPEN nor PENDING returns
\* false and changes nothing; on an OPEN or PENDING order in paper mode it
\* returns true and the order is CANCELLED.
C8_CancelOnlyOpenOrPending ==
    /\ [](\A oid \in 1 .. Len(orders), st \in Statuses,
             venue \in IF mode = "paper" THEN {"canceled"} ELSE VenueCancel :
             LET o == [orders[oid] EXCEPT !.status = st]
                 r == CancelResult(o, mode = "paper", venue)
             IN IF st \notin {"OPEN", "PENDING"}
                THEN ~r.ok /\ r.order = o
                ELSE mode = "paper"
                     => (r.ok /\ r.order = [o EXCEPT !.status = "CANCELLED"]))
    /\ [][lastOp'.op = "cancel_order"
          => /\ UNCHANGED <<balance, execIds, stratIds, positions, trades, stratTrades>>
             /\ ~lastOp'.ok => orders' = orders
             /\ \A oid \in 1 .. Len(orders) :
                   orders'[oid] # orders[oid]
                   => /\ orders[oid].status \in {"OPEN", "PENDING"}
                      /\ orders'[oid] = [orders[oid] EXCEPT !.status = "CANCELLED"]
                      /\ lastOp'.ok
             /\ (mode = "paper" /\ ~lastOp'.ok)
                   => \E oid \in 1 .. Len(orders) :
                         orders[oid].status \notin {"OPEN", "PENDING"}]_vars

\* paper mode: one order was cancelled, and a later cancel_order was refused
C8_Witness ==
    /\ mode = "paper"
    /\ lastOp.op = "cancel_order"
    /\ ~lastOp.ok
    /\ \E i \in 1 .. Len(orders) : orders[i].status = "CANCELLED"

\* C9: in live mode cancel_order marks an order CANCELLED only when the
\* venue cancelled it; otherwise it returns false and the order is as it was.
C9_LiveCancelNeedsVenue ==
    [][(mode = "live" /\ lastOp'.op = "cancel_order")
       => \A oid \in 1 .. Len(orders), venue \in VenueCancel :
             Cancel(oid, venue)
             => (/\ venue # "canceled" => (~lastOp'.ok /\ orders' = orders)
                 /\ (orders'[oid].status = "CANCELLED" /\ orders[oid].status # "CANCELLED")
                       => (venue = "canceled" /\ lastOp'.ok))]_vars

\* live mode: the venue did not cancel, the order is still OPEN
C9_Witness ==
    /\ mode = "live"
    /\ lastOp.op = "cancel_order"
    /\ ~lastOp.ok
    /\ Len(orders) = 1
    /\ orders[1].status = "OPEN"

\* C10: a fill applied to an order adds the fill size to filled_size and
\* leaves the order PARTIALLY_FILLED if filled_size < size, FILLED otherwise.
C10_FillSetsStatus ==
    [][lastOp'.op = "on_order_update"
       => \A etype \in EventTypes, oid \in 1 .. Len(orders), price \in FillPrices,
             size \in FillSizes :
             (/\ oid \in stratIds /\ etype = "order_fill"
              /\ OrderUpdate(etype, oid, price, size))
             => (/\ orders'[oid].filled = orders[oid].filled + size
                 /\ orders'[oid].status =
                       IF orders'[oid].filled < orders[oid].size
                       THEN "PARTIALLY_FILLED" ELSE "FILLED")]_vars

\* C11: live mode keeps the engine's accounting like paper mode does: once a
\* live BUY has been filled in full on the user channel, the engine holds the
\* position and the trade of that fill, and a SELL of the same token and size
\* passes the position check.
C11_LiveFillReachesEngine ==
    mode = "live"
    => \A i \in execIds \cap stratIds :
          (/\ orders[i].side = "BUY"
           /\ orders[i].status = "FILLED"
           /\ orders[i].filled = orders[i].size)
          => /\ orders[i].token \in DOMAIN positions
             /\ \E k \in 1 .. Len(trades) : trades[k].order = i
             /\ CreateOutcome(orders[i].token, "SELL", orders[i].price,
                              orders[i].size, TRUE) = "ok"

\* The order of side effects the fill contract fixes.
ContractFillEffects == <<"trade", "order", "balance", "position", "on_fill", "persist">>

\* C12: every fill, paper or live, records the trade, updates the order, the
\* balance and the position, calls on_fill once and persists, in that order.
C12_FillEffectsInOrder == effects # <<>> => effects = ContractFillEffects

\* C13: an order_fill delivered a second time changes no order, appends no
\* trade and calls on_fill no more.
C13_RedeliveryAppliedOnce ==
    [][(lastOp'.op = "on_order_update" /\ lastOp'.why = "redelivery")
       => (/\ orders' = orders
           /\ stratTrades' = stratTrades
           /\ effects' = <<>>)]_vars

\* the first frame of channel ch has been handled
HandledFrame(ch) == channel = ch /\ ~pending /\ nframes = 1

\* the object of a frame that is a single object
FrameObject == frame.items[1].msg

Numeric(v) == v.kind \in {"num", "numstr"}
NumericOrAbsent(v) == v.kind \in {"absent", "num", "numstr"}

\* a well-formed per-token entry: an object with an asset_id, a numeric price
\* and, where given, numeric best_bid and best_ask
WellFormedChange(pc) ==
    /\ pc.isDict
    /\ pc.asset_id.kind = "str"
    /\ Numeric(pc.price)
    /\ NumericOrAbsent(pc.best_bid)
    /\ NumericOrAbsent(pc.best_ask)

\* an entry that can be decoded: an object whose numeric fields, where given,
\* are numeric
DecodableChange(pc) ==
    /\ pc.isDict
    /\ NumericOrAbsent(pc.price)
    /\ NumericOrAbsent(pc.best_bid)
    /\ NumericOrAbsent(pc.best_ask)

IsBatched == frame.kind = "dict" /\ FrameObject.event_type = "price_change"
             /\ FrameObject.price_changes.kind = "list"

IsLegacy == frame.kind = "dict" /\ FrameObject.event_type = "price_change"
            /\ FrameObject.price_changes.kind = "absent"

\* C14: a price_change frame whose price_changes array holds N well-formed
\* entries yields exactly N price events in array order, the i-th with the
\* i-th entry's asset_id and price and the frame's market id.
C14_BatchedDecodesInOrder ==
    (/\ HandledFrame("market")
     /\ IsBatched
     /\ \A i \in 1 .. Len(FrameObject.price_changes.items) :
            WellFormedChange(FrameObject.price_changes.items[i]))
    => LET pcs == FrameObject.price_changes.items
       IN /\ Len(emitted) = Len(pcs)
          /\ \A i \in 1 .. Len(pcs) :
                /\ emitted[i].cb = "price"
                /\ emitted[i].update.token_id = pcs[i].asset_id
                /\ emitted[i].update.price = pcs[i].price.num
                /\ emitted[i].update.market_id = Get(FrameObject.market, JStr(0))

\* two well-formed entries for two tokens were decoded, the market id given
C14_Witness ==
    /\ HandledFrame("market")
    /\ IsBatched
    /\ FrameObject.market = JStr(9)
    /\ Len(FrameObject.price_changes.items) = 2
    /\ \A i \in 1 .. 2 : WellFormedChange(FrameObject.price_changes.items[i])
    /\ FrameObject.price_changes.items[1].asset_id = JStr(2)
    /\ FrameObject.price_changes.items[2].asset_id = JStr(1)
    /\ Len(emitted) = 2

RECURSIVE Concat(_)
Concat(ss) == IF ss = <<>> THEN <<>> ELSE Head(ss) \o Concat(Tail(ss))

\* what the market handler emits for one object arriving alone
AloneEmits(msg) == ProcessMarketMessage(DictFrame(msg)).out

\* C15: no frame ends the receive loop of the market channel; frames that are
\* no JSON, no object or list, of an unknown event_type, with a price_changes
\* that is no list or with a non-numeric price emit nothing; a list emits what
\* its objects emit alone, its other elements nothing; an array emits what
\* its decodable entries emit alone.
C15_DecodingIsTotal ==
    /\ recvAlive
    /\ HandledFrame("market")
       => /\ frame.kind \in {"invalid", "scalar"} => emitted = <<>>
          /\ frame.kind = "dict"
             => /\ FrameObject.event_type \notin {"price_change", "book", "trade"}
                      => emitted = <<>>
                /\ (FrameObject.event_type = "price_change"
                    /\ FrameObject.price_changes.kind = "notlist") => emitted = <<>>
                /\ (IsLegacy /\ ~NumericOrAbsent(FrameObject.price)) => emitted = <<>>
                /\ IsBatched
                      => LET pcs == FrameObject.price_changes.items
                         IN emitted =
                               Concat([i \in 1 .. Len(pcs) |->
                                   IF DecodableChange(pcs[i])
                                   THEN AloneEmits([FrameObject EXCEPT
                                            !.price_changes = ListChanges(<<pcs[i]>>)])
                                   ELSE <<>>])
          /\ frame.kind = "list"
             => emitted = Concat([i \in 1 .. Len(frame.items) |->
                                    IF frame.items[i].isDict
                                    THEN AloneEmits(frame.items[i].msg)
                                    ELSE <<>>])

\* an array whose first entry cannot be decoded and whose second can: one
\* event came out and the loop is still reading
C15_Witness ==
    /\ HandledFrame("market")
    /\ recvAlive
    /\ IsBatched
    /\ Len(FrameObject.price_changes.items) = 2
    /\ ~DecodableChange(FrameObject.price_changes.items[1])
    /\ DecodableChange(FrameObject.price_changes.items[2])
    /\ Len(emitted) = 1

\* the PriceUpdate the defaults describe: missing price 0.0, missing market
\* and asset_id the empty string, missing bid and ask absent
DefaultedUpdate(market, asset_id, price, bid, ask) ==
    PriceUpdate(IF market.kind = "absent" THEN JStr(0) ELSE market,
                IF asset_id.kind = "absent" THEN JStr(0) ELSE asset_id,
                IF price.kind = "absent" THEN 0 ELSE price.num,
                IF bid.kind = "absent" THEN NoFloat ELSE SomeFloat(bid.num),
                IF ask.kind = "absent" THEN NoFloat ELSE SomeFloat(ask.num))

\* C16: a legacy price_change object yields exactly one event with market,
\* asset_id, price, bid and ask of the top level; in both formats a missing
\* price is 0.0, a missing market or asset_id the empty string and a missing
\* bid/ask or best_bid/best_ask is absent.
C16_LegacyAndDefaults ==
    HandledFrame("market")
    => /\ (/\ IsLegacy
           /\ NumericOrAbsent(FrameObject.price)
           /\ NumericOrAbsent(FrameObject.bid)
           /\ NumericOrAbsent(FrameObject.ask))
          => emitted = <<Emit("price", "price_change",
                              DefaultedUpdate(FrameObject.market, FrameObject.asset_id,
                                              FrameObject.price, FrameObject.bid,
                                              FrameObject.ask))>>
       /\ (/\ IsBatched
           /\ \A i \in 1 .. Len(FrameObject.price_changes.items) :
                  DecodableChange(FrameObject.price_changes.items[i]))
          => LET pcs == FrameObject.price_changes.items
             IN /\ Len(emitted) = Len(pcs)
                /\ \A i \in 1 .. Len(pcs) :
                      emitted[i].update =
                         DefaultedUpdate(FrameObject.market, pcs[i].asset_id,
                                         pcs[i].price, pcs[i].best_bid, pcs[i].best_ask)

\* a legacy object with a bid and nothing else decoded to one event
C16_Witness ==
    /\ HandledFrame("market")
    /\ IsLegacy
    /\ FrameObject.price = JAbsent
    /\ FrameObject.asset_id = JAbsent
    /\ FrameObject.bid = JNum(0)
    /\ FrameObject.ask = JAbsent
    /\ Len(emitted) = 1
    /\ emitted[1].update.best_bid = SomeFloat(0)
    /\ emitted[1].update.best_ask = NoFloat

\* what the user handler dispatches for one object arriving alone
AloneDispatches(msg) == ProcessUserMessage(DictFrame(msg)).out

\* C17: a user-channel frame that is a list of objects dispatches each object
\* to the order callbacks as if it had arrived alone.
C17_UserListDispatchedEach ==
    (/\ HandledFrame("user")
     /\ frame.kind = "list"
     /\ \A i \in 1 .. Len(frame.items) : frame.items[i].isDict)
    => emitted = Concat([i \in 1 .. Len(frame.items) |->
                           AloneDispatches(frame.items[i].msg)])

\* run() calls connect() in this step
ConnectCalled == runAt = "top" /\ runAt' = "connecting"

\* C18: when the market socket is established with a non-empty subscription
\* set, one subscribe frame holding exactly that set is sent on it before any
\* message is read; while the socket is open the last frame sent covers the
\* whole set; subscribing tokens already in the set leaves the set as it is.
C18_ResubscribedOnConnect ==
    /\ []((marketWs = "open" /\ marketSubs # {})
          => (sent # <<>> /\ marketSubs \subseteq sent[Len(sent)]))
    /\ [][(runAt = "connecting" /\ runAt' = "gather")
          => (/\ reads' = 0
              /\ marketSubs # {} => sent' = <<marketSubs>>)]_vars
    /\ [][reads' > reads => (sent # <<>> \/ marketSubs = {})]_vars
    /\ [][\A token_ids \in SUBSET Tokens :
             (token_ids \subseteq marketSubs /\ Subscribe(token_ids))
             => marketSubs' = marketSubs]_vars

\* after a reconnect the frame sent on the new socket held both tokens, and a
\* message has been read from it
C18_Witness ==
    /\ via = "sleep"
    /\ runAt = "gather"
    /\ marketWs = "open"
    /\ sent = <<Tokens>>
    /\ reads = 1

\* C19: with auto_reconnect on and run() going, a channel that is
\* disconnected while the other one is open is connected again in the end.
C19_ReconnectsEventually ==
    /\ (marketWs \in Closed /\ userWs = "open" /\ wsRunning /\ autoReconnect)
          ~> (marketWs = "open" \/ ~wsRunning)
    /\ (userWs \in Closed /\ marketWs = "open" /\ wsRunning /\ autoReconnect)
          ~> (userWs = "open" \/ ~wsRunning)

\* C20: run() calls connect() again only after sleeping reconnect_delay,
\* never straight from a gather that has returned.
C20_SleepsBeforeReconnect == [][ConnectCalled => via # "gather"]_vars

\* disconnect() has been called since run() started
DisconnectCalled == ~wsRunning /\ runAt # "new"

\* both sockets are closed, no ping task and no receive loop is left, and
\* run() has finished
AllClosed ==
    /\ marketWs # "open"
    /\ userWs # "open"
    /\ leaked = {}
    /\ marketTask # "reading"
    /\ userTask # "reading"
    /\ marketPing # "running"
    /\ userPing # "running"
    /\ runAt = "exit"

\* C21: after disconnect() is called at any point of run(), in the end both
\* sockets are closed, the ping tasks and the receive loops have exited and
\* run() has finished; no socket is opened after the call.
C21_DisconnectEndsRun ==
    /\ DisconnectCalled ~> AllClosed
    /\ [][DisconnectCalled => /\ (marketWs' = "open" => marketWs = "open")
                              /\ (userWs' = "open" => userWs = "open")]_vars

\* C22: with auto_reconnect off, run() calls connect() once only, and the
\* first disconnect of a channel ends run().
C22_NoReconnectWhenDisabled ==
    /\ [][(~autoReconnect /\ ConnectCalled) => via = "start"]_vars
    /\ (~autoReconnect /\ runAt = "gather"
           /\ (marketWs \in Closed \/ userWs \in Closed))
          ~> (runAt = "exit")

\* C23: without API credentials no USER frame is ever sent; with them, every
\* connect of the user channel sends one USER frame holding the current
\* condition-id set.
C23_UserFrameOnConnect ==
    /\ [](~hasCreds => userSent = <<>>)
    /\ [][(ConnectAccepted /\ hasKey /\ hasCreds) => userSent' = <<userSubs>>]_vars

\* C24: every PING is sent by a ping task that found _running set and its
\* socket open; no ping task is running when run() is between two rounds,
\* where connect() replaces the sockets; after disconnect() no PING is sent.
C24_PingsOnlyWhenLive ==
    /\ [](ping.ch # "none" => (ping.open /\ ping.running))
    /\ [](runAt \in {"top", "connecting", "sleep", "exit"}
          => (marketPing # "running" /\ userPing # "running"))
    /\ [][~wsRunning => ping' = ping]_vars

\* a PING was sent on the user socket; the venue has closed the socket and
\* the ping task has ended
C24_Witness ==
    /\ ping.ch = "user"
    /\ userWs \in Closed
    /\ userPing = "done"
    /\ runAt = "gather"

\* the reconnect path of run(), or an end of the connection from outside
Reconnecting == runAt # "gather" \/ marketWs # "open" \/ ~wsRunning

\* C25: a channel whose PINGs have gone unanswered for three ping intervals
\* in a row, or whose reader has raised, is taken for disconnected: run()
\* leaves its gather for the reconnect path.
C25_SilentChannelReconnects ==
    /\ (missed = MaxMissed /\ runAt = "gather" /\ marketWs = "open" /\ wsRunning)
          ~> Reconnecting
    /\ (runAt = "gather" /\ (marketTask = "raised" \/ userTask = "raised"))
          ~> (runAt # "gather")

\* the number of calls of the hook name in a sequence of calls
Calls(h, name) == Cardinality({i \in 1 .. Len(h) : h[i].name = name})

\* the markets of the cache that have the token as their YES or NO token
MarketsOf(cache, token) ==
    {m \in DOMAIN cache : cache[m].yes = token \/ cache[m].no = token}

PriceDispatched == nEvents' = nEvents + 1 /\ event'.kind = "price"

StrategyCallbacks ==
    {"on_start", "on_price_update", "on_orderbook_update", "on_market_trade",
     "on_fill", "on_heartbeat"}

\* call i of the sequence raised and on_error was called after it
Reported(h, i) == \E j \in i + 1 .. Len(h) : h[j].name = "on_error"

\* C27: when a callback of the strategy invoked by the harness raises, the
\* exception is reported to on_error and the harness goes on waiting for the
\* next event.
C27_CallbackErrorsReported ==
    \A i \in 1 .. Len(hooks) :
        (hooks[i].name \in StrategyCallbacks /\ hooks[i].raised)
            => (Reported(hooks, i) /\ hAt = "waiting")

\* C30: at no point are two callbacks of the strategy in progress in two of
\* the three loops (market receive, user receive, heartbeat), and no step
\* changes the state of the engine while the callback of another loop is in
\* progress.
C30_CallbacksSerial ==
    /\ [](Cardinality(inCallback) <= 1)
    /\ [][execVars' # execVars =>
            (Cardinality(inCallback) <= 1 /\ Cardinality(inCallback') <= 1)]_vars

C30_Witness ==
    /\ inCallback = {"user"}
    /\ onLoop = "user"
    /\ event.kind = "order_fill"
    /\ Len(stratTrades) >= 1
    /\ nEvents = MaxEvents

\* on_stop has been called
Stopped == Calls(hooks, "on_stop") > 0

\* C28: on_start is invoked before the WebSocketManager is launched, hence
\* before any message is read and any callback of the strategy is invoked,
\* and on_stop is invoked only in a run in which on_start was invoked before.
C28_StartFirst ==
    /\ launched => started
    /\ runAt # "new" => started
    /\ (reads > 0 \/ inCallback # {}) => started
    /\ Stopped => started

StopStep == hAt = "stopping" /\ hAt' = "stopped"

\* C29: when run() ends, on_stop is invoked and the WebSocketManager is then
\* disconnected, whether on_stop raises or not: its sockets are closed and
\* its ping tasks cancelled.
C29_StopDisconnects ==
    /\ [](hAt = "stopped" => Stopped)
    /\ [][StopStep =>
            /\ ~wsRunning'
            /\ marketWs' # "open" /\ userWs' # "open"
            /\ marketPing' # "running" /\ userPing' # "running"]_vars

\* the calls the log holds for frame n, in the order they were made
CallsOf(n) == SelectSeq(log, LAMBDA e : e.n = n)

\* C31: the callbacks of a channel are invoked in the order of its frames,
\* every callback of a frame before any callback of the frame read after it,
\* and the price callbacks of one batched frame in the order of its entries.
C31_ChannelOrderKept ==
    /\ \A i, j \in 1 .. Len(log) : i < j => log[i].n <= log[j].n
    /\ (~pending /\ nframes >= 1)
          => CallsOf(nframes) = [i \in 1 .. Len(emitted) |-> [n |-> nframes, call |-> emitted[i]]]
    /\ (HandledFrame("market") /\ IsBatched)
          => LET dec == SelectSeq(FrameObject.price_changes.items, DecodableChange)
             IN /\ Len(log) = Len(dec)
                /\ \A i \in 1 .. Len(dec) :
                      /\ log[i].call.cb = "price"
                      /\ log[i].call.update.token_id = Get(dec[i].asset_id, JStr(0))
                      /\ log[i].call.update.price = Get(dec[i].price, JNum(0)).num

\* a batched frame gave two price callbacks for two tokens, and the frame
\* read after it a third callback
C31_Witness ==
    /\ channel = "market"
    /\ ~pending
    /\ nframes = 2
    /\ Len(log) = 3
    /\ log[1].n = 1 /\ log[2].n = 1 /\ log[3].n = 2
    /\ log[1].call.cb = "price" /\ log[2].call.cb = "price"
    /\ log[1].call.update.token_id = JStr(2)
    /\ log[2].call.update.token_id = JStr(1)
    /\ log[3].call.cb = "book"

\* C36: in paper mode the cash balance is never negative, whatever orders
\* (LIMIT and MARKET, with any slippage >= 0) create_order has been given.
C36_PaperBalanceNonNegative == mode = "paper" => balance >= 0

\* the trades of the engine's list that belong to order oid
TradesOf(oid) == {i \in 1 .. Len(trades) : trades[i].order = oid}

\* C39: in paper mode the balance is the starting balance less the value of
\* the BUY trades plus the value of the SELL trades, every order of the
\* engine has exactly one trade, of the order's size, and every trade belongs
\* to an order of the engine's order map.
C39_PaperCashConserved ==
    mode = "paper"
    => /\ balance = StartingBalance + SignedSum(trades)
       /\ \A oid \in execIds :
             /\ Cardinality(TradesOf(oid)) = 1
             /\ \A i \in TradesOf(oid) : trades[i].size = orders[oid].size
       /\ \A i \in 1 .. Len(trades) : trades[i].order \in execIds

\* a MARKET buy filled above its limit price, then a sell
C39_Witness ==
    /\ mode = "paper"
    /\ Len(trades) = 2
    /\ trades[1].side = "BUY"
    /\ trades[1].price > orders[trades[1].order].price
    /\ trades[2].side = "SELL"

\* C37: each channel has at most one open socket and one receive loop: when
\* run() has reconnected, no socket of an earlier connection is still open
\* with its receive loop reading it.
C37_OneLoopPerChannel == \A ch \in Channels : ch \notin leaked

\* the callbacks the three loops invoke
LoopCallbacks == StrategyCallbacks \ {"on_start"}

\* C38: once on_stop has been invoked, no loop invokes a callback of the
\* strategy any more, also when run() was cancelled with the websocket task
\* and the heartbeat task alive.
C38_NoCallbackAfterStop ==
    [][(hAt = "stopped" /\ hooks' # hooks)
          => \A i \in 1 .. Len(hooks') : hooks'[i].name \notin LoopCallbacks]_vars

\* the last price the market cache holds for a token, as a price of the engine
LastKnownPrice(token) ==
    IF \E m \in DOMAIN markets : markets[m].yes = token
    THEN Units(markets[CHOOSE m \in DOMAIN markets : markets[m].yes = token].price_yes)
    ELSE IF \E m \in DOMAIN markets : markets[m].no = token
    THEN Units(markets[CHOOSE m \in DOMAIN markets : markets[m].no = token].price_no)
    ELSE 0

\* balance plus the open positions valued at the last known prices
MarkedToMarket ==
    RAdd(RInt(balance),
         RSum([t \in DOMAIN positions |-> RInt(positions[t].size * LastKnownPrice(t))],
              DOMAIN positions))

\* C33: the equity the engine reports is the balance plus, for every open
\* position, its size times the last known market price of
\* its token, so a price change of a held token moves the equity by size
\* times the difference.
C33_EquityMarkedToMarket == ExecutorEquity = MarkedToMarket

\* the size of the engine's position in a token, 0 when there is none
EngineSize(token) == IF token \in DOMAIN positions THEN positions[token].size ELSE 0

\* C34: Strategy.position(market, outcome) is the size of the engine's
\* position in the outcome's token after any orders placed through
\* Strategy.buy and Strategy.sell, and sell(market) without a size sells the
\* whole position.
C34_PositionFollowsFills ==
    /\ [](\A m \in DOMAIN markets : \A o \in Outcomes :
             Position(markets[m], o) = EngineSize(OutcomeToken(markets[m], o)))
    /\ [][(call'.op = "sell" /\ call'.size = <<>> /\ lastOp'.ok /\ orders' # orders)
             => LET token == OutcomeToken(markets[call'.market], call'.outcome)
                IN token \notin DOMAIN positions' \/ positions'[token].size = 0]_vars

\* a call of Strategy.buy or Strategy.sell is made by the step
Traded(op) == call'.op = op /\ <<orders, lastOp, call>>' # <<orders, lastOp, call>>

\* C35: a price given to buy or sell and a size given to buy are submitted as
\* given: the order made carries them, and a given price of 0 or a given buy
\* size of 0 is rejected.
C35_ExplicitArgumentsKept ==
    [][(Traded("buy") \/ Traded("sell"))
          => LET made == lastOp'.ok
                 o == orders'[Len(orders')]
             IN /\ call'.price # <<>>
                   => /\ made => o.price = call'.price[1]
                      /\ call'.price[1] = 0 => ~made
                /\ (call'.op = "buy" /\ call'.size # <<>>)
                   => /\ made => o.size = call'.size[1]
                      /\ call'.size[1] = 0 => ~made]_vars

\* the order the last save_order call was given
Saved == storeOp.order[1]

\* the orders get_orders returned
Listed == {listed[i] : i \in 1 .. Len(listed)}

\* the rows of the table with the id of the saved order
RowsOf(id) == {r \in table : r.id = id}

\* the saved order is one of the limit most recently created orders
AmongNewest(limit) ==
    Cardinality({r \in table : Before(r, OrderToRow(Saved))}) < limit

====
